---- MODULE Spec2Model ----
(***************************************************************************)
(* Model of the playlist transfer job of sync-playlist:                    *)
(* handlers.StartTransfer and the background task handlers.processTransfer *)
(* with the persisted Transfer record and TransferTrack rows.              *)
(*                                                                         *)
(* One transfer job is modelled.  A job shares no state with another job:  *)
(* processTransfer works on its own by-value copy of the Transfer and of   *)
(* the two UserService rows, and every write it makes is keyed by the      *)
(* transfer's primary key.                                                 *)
(*                                                                         *)
(* The storage layer (gorm) is an external collaborator; its writes take   *)
(* effect as gorm documents them: Create inserts, Save writes every field  *)
(* of the struct, Model(&t).Update/Updates writes the named columns and    *)
(* assigns them to the struct t as well.  The two error branches the task  *)
(* has on a write (row create, final save) only log.                       *)
(***************************************************************************)
EXTENDS Integers, Sequences, FiniteSets, TLC

\* ------------------------------------------------------------ bounds
\* the longest source playlist a fetch returns
MaxTracks == 3

\* the last second of the limiter's clock
MaxTime == 1

\* the number of Allow and Wait calls made on the limiter
MaxCalls == 6

\* the number of calls of the token manager
MaxTokenCalls == 2

\* the last second of the token manager's clock
MaxClock == 400

\* the requests served after the program has started
MaxRequests == 2

\* the calls of the monitor and the limiter that the goroutines make
MaxOps == 3

\* the transfers that exist when details are asked for
MaxTransfers == 2

\* the longest title parsed, in symbols
MaxTitleLen == 4

\* the most items in a search response examined
MaxResults == 3

\* the OAuth callbacks that arrive
MaxCallbacks == 3

\* the longest track name compared, in symbols
MaxNameLen == 2

\* the goroutines that call the limiter
Callers == {"c1", "c2"}

\* ------------------------------------------------------------ constants
\* the token prefix length the task logs: AccessToken[:20]
TokenPrefixLen == 20

Services == {"spotify", "youtube"}

\* lengths of the stored access tokens (one shorter than the logged prefix)
TokenLens == {8, 40}

NotConnected == 0

\* the playlist name a source fetch returns
SourceNames == {"Road Trip"}

\* the target_playlist_name of a request ("" when the caller gives none)
RequestedNames == {"", "Mine"}

\* confidences a search returns, in tenths
Confidences == {0, 10}

\* provider errors and runtime faults, by description
ProviderError == "API returned status: 500"
RuntimeFault == "runtime error"
SliceFault == "runtime error: slice bounds out of range"

NoMsg == <<>>

Terminal == {"completed", "completed_with_errors", "failed"}

NoTransfer == [id |-> 0]

\* Track{} with confidence 0.0
NoTrack == [id |-> 0, name |-> "", artist |-> "", conf |-> 0]

VARIABLES
    services,      \* user_services rows of the user: service -> token length
    dbTransfer,    \* the persisted Transfer record (NoTransfer before creation)
    dbTracks,      \* the persisted TransferTrack rows of the transfer, in write order
    response,      \* the HTTP answer of StartTransfer (0: none yet)
    pc,            \* position of the background task
    local,         \* the task's local variables (its Transfer copy included)
    calls,         \* provider calls of the task that have returned, in order
    fault,         \* description of the panic that ended the task (NoMsg: none)
    now,           \* the clock, in seconds
    buckets,       \* the rate.Limiter objects made so far
    limiters,      \* RateLimiter.limiters: service -> its limiter (index in buckets)
    callers,       \* the limiter's callers: position, limiter held, result
    issued,        \* the number of Allow and Wait calls begun
    do,            \* the call of RateLimitedHTTPClient.Do: position, attempt, result
    trace,         \* what that call has done: admissions, executions, sleeps
    conn,          \* the caller's copy of a UserService row
    stored,        \* that row in the database
    tm,            \* the last call of the token manager and what it did
    match,         \* the source track and the candidate that are scored
    score,         \* the confidence computed for them
    userServices,  \* the rows of table user_services, by primary key
    callbacks,     \* each request in HandleServiceCallback: where it is, what it holds
    userServiceLog, \* the (user, provider) of every callback that arrived
    search,        \* the source track and the response of a video search
    found,         \* what searchYouTubeTrack returned for them
    videoTitle,    \* the video title that is parsed
    parsed,        \* the artist and track name parseYouTubeTitle returned
    transferRows,  \* the tables transfers and transfer_tracks
    details,       \* a request for the details of a transfer and its answer
    mu,            \* the mutexes of the monitor, of its metrics and of the limiter
    metrics,       \* RateLimitMonitor.metrics: service -> its counters
    goroutines,    \* the callers of the monitor and the limiter: position and arguments
    recorded,      \* the RecordRequest calls that have counted, by service
    opsBegun,      \* the number of calls begun
    userRow,       \* the user_services row that concurrent requests refresh
    refreshers,    \* each such request: position, its loaded copy, its error
    latestGrant,   \* the number of the latest exchange the provider granted
    boot,          \* where the program is: start, main, serving, exited
    DB,            \* database.DB, the global handle
    tokenManager,  \* handlers.tokenManager
    handled        \* the requests handled: the handles they used and how they ended

transferVars == <<services, dbTransfer, dbTracks, response, pc, local, calls, fault>>

limiterVars == <<now, buckets, limiters, callers, issued>>

clientVars == <<do, trace>>

tokenVars == <<conn, stored, tm>>

scoreVars == <<match, score>>

oauthVars == <<userServices, callbacks, userServiceLog>>

searchVars == <<search, found>>

titleVars == <<videoTitle, parsed>>

detailsVars == <<transferRows, details>>

monitorVars == <<mu, metrics, goroutines, recorded, opsBegun>>

refreshVars == <<userRow, refreshers, latestGrant>>

bootVars == <<boot, DB, tokenManager, handled>>

otherThanTransfer == <<limiterVars, clientVars, tokenVars, scoreVars, oauthVars, searchVars,
     titleVars, detailsVars, monitorVars, refreshVars, bootVars>>

otherThanLimiter == <<transferVars, clientVars, tokenVars, scoreVars, oauthVars, searchVars,
     titleVars, detailsVars, monitorVars, refreshVars, bootVars>>

otherThanClient == <<transferVars, callers, issued, tokenVars, scoreVars, oauthVars, searchVars,
     titleVars, detailsVars, monitorVars, refreshVars, bootVars>>

otherThanToken == <<transferVars, buckets, limiters, callers, issued, clientVars, scoreVars,
     oauthVars, searchVars, titleVars, detailsVars, monitorVars, refreshVars, bootVars>>

otherThanScore == <<transferVars, limiterVars, clientVars, tokenVars, oauthVars, searchVars,
     titleVars, detailsVars, monitorVars, refreshVars, bootVars>>

otherThanOAuth == <<transferVars, limiterVars, clientVars, tokenVars, scoreVars, searchVars,
     titleVars, detailsVars, monitorVars, refreshVars, bootVars>>

otherThanSearch ==
    <<transferVars, limiterVars, clientVars, tokenVars, scoreVars, oauthVars, titleVars,
     detailsVars, monitorVars, refreshVars, bootVars>>

otherThanTitle ==
    <<transferVars, limiterVars, clientVars, tokenVars, scoreVars, oauthVars, searchVars,
     detailsVars, monitorVars, refreshVars, bootVars>>

otherThanDetails ==
    <<transferVars, limiterVars, clientVars, tokenVars, scoreVars, oauthVars, searchVars,
     titleVars, monitorVars, refreshVars, bootVars>>

otherThanMonitor ==
    <<transferVars, limiterVars, clientVars, tokenVars, scoreVars, oauthVars, searchVars,
     titleVars, detailsVars, refreshVars, bootVars>>

otherThanRefresh ==
    <<transferVars, limiterVars, clientVars, tokenVars, scoreVars, oauthVars, searchVars,
     titleVars, detailsVars, monitorVars, bootVars>>

otherThanBoot ==
    <<transferVars, limiterVars, clientVars, tokenVars, scoreVars, oauthVars, searchVars,
     titleVars, detailsVars, monitorVars, refreshVars>>

vars ==
    <<transferVars, limiterVars, clientVars, tokenVars, scoreVars, oauthVars, searchVars,
      titleVars, detailsVars, monitorVars, refreshVars, bootVars>>

\* ------------------------------------------------------------ gorm
\* db.Model(&t).Updates(vals): the columns written, which gorm also assigns
\* to the struct t
Updates(rec, vals) ==
    [f \in DOMAIN rec |-> IF f \in DOMAIN vals THEN vals[f] ELSE rec[f]]

ModelAfterUpdates_NoAssign(t, vals) == t

\* the struct t after db.Model(&t).Updates(vals)
ModelAfterUpdates(t, vals) == Updates(t, vals)

\* the record persisted by db.Save(&t): every field of t
Save(t) == t

\* ------------------------------------------------------------ StartTransfer
NewTransfer(src, tgt) ==
    [id |-> 1, sourceService |-> src, targetService |-> tgt,
     sourcePlaylistName |-> "", targetPlaylistID |-> "",
     targetPlaylistName |-> "", status |-> "pending",
     tracksTotal |-> 0, tracksMatched |-> 0, tracksFailed |-> 0,
     errorMessage |-> NoMsg]

NoLocal ==
    [transfer |-> NoTransfer, sourceToken |-> 0, targetToken |-> 0,
     targetPlaylistName |-> "", sourceTracks |-> <<>>,
     sourcePlaylistName |-> "", targetPlaylistID |-> "",
     i |-> 0, matchedTracks |-> 0, failedTracks |-> 0,
     targetTrack |-> NoTrack]

StartTransferNotConnected_Launch ==
    /\ response = 0
    /\ \E src \in Services, tgt \in Services :
          /\ services[src] = NotConnected \/ services[tgt] = NotConnected
          /\ local' = [NoLocal EXCEPT !.sourceToken = services[src],
                                      !.targetToken = services[tgt]]
    /\ response' = 400
    /\ pc' = "begin"
    /\ UNCHANGED <<services, dbTransfer, dbTracks, calls, fault>>

\* a request whose source or target service is not connected: 400, no record
StartTransferNotConnected ==
    /\ response = 0
    /\ \E src \in Services, tgt \in Services :
          services[src] = NotConnected \/ services[tgt] = NotConnected
    /\ response' = 400
    /\ UNCHANGED <<services, dbTransfer, dbTracks, pc, local, calls, fault>>

\* the record cannot be created: 500, no task
StartTransferCreateFails ==
    /\ response = 0
    /\ \E src \in Services, tgt \in Services :
          services[src] # NotConnected /\ services[tgt] # NotConnected
    /\ response' = 500
    /\ UNCHANGED <<services, dbTransfer, dbTracks, pc, local, calls, fault>>

\* both connected: the record is created pending, the task is launched
StartTransfer ==
    /\ response = 0
    /\ \E src \in Services, tgt \in Services, name \in RequestedNames :
          /\ services[src] # NotConnected
          /\ services[tgt] # NotConnected
          /\ dbTransfer' = NewTransfer(src, tgt)
          /\ local' = [NoLocal EXCEPT !.transfer = NewTransfer(src, tgt),
                                      !.sourceToken = services[src],
                                      !.targetToken = services[tgt],
                                      !.targetPlaylistName = name]
    /\ pc' = "begin"
    /\ response' = 200
    /\ UNCHANGED <<services, dbTracks, calls, fault>>

\* ------------------------------------------------------------ processTransfer
\* the deferred recover handler: the panic is logged and the transfer is
\* updated to failed with the panic's description
RecoverUpdates_NoStatus(r) == [errorMessage |-> <<"Panic: ", r>>]

RecoverUpdates(r) == [status |-> "failed", errorMessage |-> <<"Panic: ", r>>]

Recover(r) ==
    /\ dbTransfer' = Updates(dbTransfer, RecoverUpdates(r))
    /\ local' = [local EXCEPT !.transfer = ModelAfterUpdates(@, RecoverUpdates(r))]
    /\ fault' = <<r>>
    /\ pc' = "done"

\* the opening log lines slice the first 20 characters of both access tokens
Begin ==
    /\ pc = "begin"
    /\ IF local.sourceToken < TokenPrefixLen \/ local.targetToken < TokenPrefixLen
       THEN Recover(SliceFault)
       ELSE /\ pc' = "set_processing"
            /\ UNCHANGED <<dbTransfer, local, fault>>
    /\ UNCHANGED <<services, dbTracks, response, calls>>

\* db.Model(&transfer).Update("status", "processing")
SetProcessing ==
    /\ pc = "set_processing"
    /\ dbTransfer' = Updates(dbTransfer, [status |-> "processing"])
    /\ local' = [local EXCEPT !.transfer = ModelAfterUpdates(@, [status |-> "processing"])]
    /\ pc' = "fetch"
    /\ UNCHANGED <<services, dbTracks, response, calls, fault>>

StageFailed_NoStatus(loc, msg) ==
    /\ dbTransfer' = Updates(dbTransfer, [errorMessage |-> msg])
    /\ local' = [loc EXCEPT !.transfer = ModelAfterUpdates(@, [errorMessage |-> msg])]
    /\ pc' = "done"

\* a stage failure: the transfer is updated to failed with a message and
\* the task returns (loc: the locals when the stage's call has returned)
StageFailed(loc, msg) ==
    /\ dbTransfer' = Updates(dbTransfer, [status |-> "failed", errorMessage |-> msg])
    /\ local' = [loc EXCEPT !.transfer =
                    ModelAfterUpdates(@, [status |-> "failed", errorMessage |-> msg])]
    /\ pc' = "done"

\* fetchPlaylistTracks returned an error
FetchFails ==
    /\ pc = "fetch"
    /\ calls' = Append(calls, [op |-> "fetch", track |-> 0, res |-> "error"])
    /\ StageFailed(local, <<"Failed to fetch source playlist: ", ProviderError>>)
    /\ UNCHANGED <<services, dbTracks, response, fault>>

\* fetchPlaylistTracks returned no track
FetchEmpty ==
    /\ pc = "fetch"
    /\ \E name \in SourceNames :
          /\ calls' = Append(calls, [op |-> "fetch", track |-> 0, res |-> "ok"])
          /\ StageFailed([local EXCEPT !.sourcePlaylistName = name],
                         <<"Source playlist is empty">>)
    /\ UNCHANGED <<services, dbTracks, response, fault>>

\* the transfer as saved once the source tracks are fetched
AfterFetch(t, name) == [t EXCEPT !.sourcePlaylistName = name]

\* fetchPlaylistTracks returned n > 0 tracks: the source name is saved and
\* the target name defaults to it
FetchTracks ==
    /\ pc = "fetch"
    /\ \E n \in 1..MaxTracks, name \in SourceNames :
          /\ calls' = Append(calls, [op |-> "fetch", track |-> 0, res |-> "ok"])
          /\ dbTransfer' = Save(AfterFetch(local.transfer, name))
          /\ local' = [local EXCEPT
                !.transfer = AfterFetch(@, name),
                !.sourceTracks = [k \in 1..n |-> k],
                !.sourcePlaylistName = name,
                !.targetPlaylistName = IF @ = "" THEN name ELSE @]
    /\ pc' = "create"
    /\ UNCHANGED <<services, dbTracks, response, fault>>

\* createPlaylist returned an error
CreateFails ==
    /\ pc = "create"
    /\ calls' = Append(calls, [op |-> "create", track |-> 0, res |-> "error"])
    /\ StageFailed(local, <<"Failed to create target playlist: ", ProviderError>>)
    /\ UNCHANGED <<services, dbTracks, response, fault>>

AfterCreate_NoTotal(t, id, name, tracks) ==
    [t EXCEPT !.targetPlaylistID = id, !.targetPlaylistName = name]

\* the transfer as saved once the target playlist exists
AfterCreate(t, id, name, tracks) ==
    [t EXCEPT !.targetPlaylistID = id, !.targetPlaylistName = name,
              !.tracksTotal = Len(tracks)]

\* createPlaylist returned the new playlist's id; the loop starts at the
\* first track with both counters at zero
CreatePlaylist ==
    /\ pc = "create"
    /\ calls' = Append(calls, [op |-> "create", track |-> 0, res |-> "ok"])
    /\ dbTransfer' = Save(AfterCreate(local.transfer, "pl", local.targetPlaylistName,
                                      local.sourceTracks))
    /\ local' = [local EXCEPT
          !.transfer = AfterCreate(@, "pl", local.targetPlaylistName, local.sourceTracks),
          !.targetPlaylistID = "pl",
          !.i = 1, !.matchedTracks = 0, !.failedTracks = 0]
    /\ pc' = "search"
    /\ UNCHANGED <<services, dbTracks, response, fault>>

\* the name and artist of a track a search found: a video title that
\* parseYouTubeTitle cannot split gives the empty artist
TargetNames == {[name |-> "One More Time", artist |-> "Daft Punk"],
                [name |-> "Intro", artist |-> ""]}

\* what searchTrack returns: an error, or a track with a confidence; the
\* track of id 0 is Track{}, the track with the empty id
SearchResults ==
    {[err |-> TRUE, id |-> 0, name |-> "", artist |-> "", conf |-> 0]} \cup
    {[err |-> FALSE, id |-> 0, name |-> "", artist |-> "", conf |-> c] : c \in Confidences} \cup
    {[err |-> FALSE, id |-> 1, name |-> n.name, artist |-> n.artist, conf |-> c] :
        n \in TargetNames, c \in Confidences}

\* a search result as the loop reads it: err != nil, an empty id, a track
SearchOutcome(r) == IF r.err THEN "error" ELSE IF r.id = 0 THEN "empty" ELSE "found"

\* the row of a track whose search failed or returned no id
NotFoundRow(track) ==
    [sourceTrackID |-> track, status |-> "not_found", targetTrackID |-> 0,
     targetTrackName |-> "", targetArtist |-> "", confidence |-> 0]

FoundRow_AlwaysMatched(track, target, addOk) ==
    [sourceTrackID |-> track, status |-> "matched",
     targetTrackID |-> target.id, targetTrackName |-> target.name,
     targetArtist |-> target.artist, confidence |-> target.conf]

FoundRow_ErrorBare(track, target, addOk) ==
    IF addOk
    THEN [sourceTrackID |-> track, status |-> "matched",
          targetTrackID |-> target.id, targetTrackName |-> target.name,
          targetArtist |-> target.artist, confidence |-> target.conf]
    ELSE [sourceTrackID |-> track, status |-> "error", targetTrackID |-> target.id,
          targetTrackName |-> "", targetArtist |-> "", confidence |-> 0]

\* the row of a track that was found, by the outcome of the append
FoundRow(track, target, addOk) ==
    [sourceTrackID |-> track, status |-> IF addOk THEN "matched" ELSE "error",
     targetTrackID |-> target.id, targetTrackName |-> target.name,
     targetArtist |-> target.artist, confidence |-> target.conf]

NextPc_Break(loc) == "finalize"

\* the position of the task once the row of track i is written: the next
\* track, or the final update after the last one
NextPc(loc) == IF loc.i < Len(loc.sourceTracks) THEN "search" ELSE "finalize"

\* range loop: the next index
NextIndex(i) == i + 1

\* searchTrack for the current track.  An error or an empty id count the
\* track failed and write its not_found row; a found track goes on to the
\* append.
SearchTrack ==
    /\ pc = "search"
    /\ \E r \in SearchResults :
        LET track == local.sourceTracks[local.i] IN
        /\ calls' = Append(calls, [op |-> "search", track |-> track,
                                   res |-> SearchOutcome(r)])
        /\ IF SearchOutcome(r) # "found"
           THEN /\ dbTracks' = Append(dbTracks, NotFoundRow(track))
                /\ local' = [local EXCEPT !.failedTracks = @ + 1,
                                          !.i = NextIndex(@)]
                /\ pc' = NextPc(local)
           ELSE /\ local' = [local EXCEPT !.targetTrack =
                                 [id |-> track * r.id, name |-> r.name,
                                  artist |-> r.artist, conf |-> r.conf]]
                /\ pc' = "add"
                /\ UNCHANGED dbTracks
    /\ UNCHANGED <<services, dbTransfer, response, fault>>

\* addTrackToPlaylist for the found track, then its row
AddTrack ==
    /\ pc = "add"
    /\ \E addOk \in BOOLEAN :
        LET track == local.sourceTracks[local.i] IN
        /\ calls' = Append(calls, [op |-> "add", track |-> track,
                                   res |-> IF addOk THEN "ok" ELSE "error"])
        /\ dbTracks' = Append(dbTracks, FoundRow(track, local.targetTrack, addOk))
        /\ local' = [local EXCEPT
              !.matchedTracks = IF addOk THEN @ + 1 ELSE @,
              !.failedTracks = IF addOk THEN @ ELSE @ + 1,
              !.i = NextIndex(@)]
        /\ pc' = NextPc(local)
    /\ UNCHANGED <<services, dbTransfer, response, fault>>

FinalStatus_NoErrors(matched, failed) ==
    IF matched > 0 THEN "completed" ELSE "failed"

\* the final status, from the loop's two counters
FinalStatus(matched, failed) ==
    IF matched > 0
    THEN IF failed = 0 THEN "completed" ELSE "completed_with_errors"
    ELSE "failed"

\* the transfer as saved after the loop
AfterLoop(t, matched, failed) ==
    [t EXCEPT !.tracksMatched = matched, !.tracksFailed = failed,
              !.status = FinalStatus(matched, failed)]

Finalize ==
    /\ pc = "finalize"
    /\ dbTransfer' = Save(AfterLoop(local.transfer, local.matchedTracks,
                                    local.failedTracks))
    /\ local' = [local EXCEPT
          !.transfer = AfterLoop(@, local.matchedTracks, local.failedTracks)]
    /\ pc' = "done"
    /\ UNCHANGED <<services, dbTracks, response, calls, fault>>

\* positions at which the task is running below its deferred handler
Running == {"set_processing", "fetch", "create", "search", "add", "finalize"}

\* positions at which the task waits for a provider's answer
InCall == {"fetch", "create", "search", "add"}

\* a panic raised while the task runs is recovered by the deferred handler
Fault ==
    /\ pc \in Running
    /\ Recover(RuntimeFault)
    /\ UNCHANGED <<services, dbTracks, response, calls>>

\* the provider accepts the request and never answers: the calls are made
\* with &http.Client{}, which has no timeout, so client.Do does not return
ProviderSilent ==
    /\ pc \in InCall
    /\ pc' = "blocked"
    /\ UNCHANGED <<services, dbTransfer, dbTracks, response, local, calls, fault>>

\* ------------------------------------------------------------ ratelimit.RateLimiter
\* Time is counted in whole seconds.  A bucket is a rate.Limiter
\* (golang.org/x/time/rate): tokens refill at `rate` per second up to
\* `burst`; a reservation takes one token, and a token taken on credit
\* (tokens below zero) is waited for.  A wait that is not a whole number of
\* seconds is rounded up.  granted and born are history: the admissions the
\* bucket has granted and the time it was made.

\* serviceLimits
ServiceLimits ==
    [spotify |-> [rate |-> 10, burst |-> 20],
     youtube |-> [rate |-> 1, burst |-> 5]]

\* a service name with no entry in the limiter map
UnknownService == "other"

\* the limits SetCustomLimit is called with
CustomLimits == {[rate |-> 1, burst |-> 2]}

\* context.WithTimeout(context.Background(), 30*time.Second)
WaitTimeout == 30

Min(a, b) == IF a < b THEN a ELSE b

\* the least whole number of seconds in which `deficit` tokens refill
SecondsFor(deficit, rate) == (deficit + rate - 1) \div rate

\* rate.NewLimiter(rate.Limit(r), b): a full bucket
NewLimiter(r, b, t) ==
    [rate |-> r, burst |-> b, tokens |-> b, last |-> t, granted |-> 0, born |-> t]

\* Limiter.advance: the bucket refilled up to time t
Advance(b, t) ==
    [b EXCEPT !.tokens = Min(b.tokens + b.rate * (t - b.last), b.burst),
              !.last = t]

\* Limiter.reserveN(t, 1, maxWait): the reservation of one token at time t
\* that waits at most maxWait; a refused reservation leaves the bucket as
\* it was
Reserve(b, t, maxWait) ==
    LET a == Advance(b, t)
        left == a.tokens - 1
        delay == IF left < 0 THEN SecondsFor(0 - left, b.rate) ELSE 0
        ok == 1 <= b.burst /\ delay <= maxWait
    IN [ok |-> ok, delay |-> delay,
        bucket |-> IF ok THEN [a EXCEPT !.tokens = left] ELSE b]

\* an admission of the bucket is counted
Grant(b) == [b EXCEPT !.granted = @ + 1]

IdleCaller == [pc |-> "idle", service |-> "", ref |-> 0, until |-> 0, result |-> "none"]

\* the caller back from a call on the limiter
Returned(caller, res) == [IdleCaller EXCEPT !.service = caller.service, !.result = res]

\* a limiter that nothing refers to any more
Freed == [rate |-> 0, burst |-> 0, tokens |-> 0, last |-> 0, granted |-> 0, born |-> 0]

\* the limiters still held by the map or by a caller; the others are garbage
Collect(bs, lims, cs) ==
    [i \in DOMAIN bs |->
        IF \/ \E s \in DOMAIN lims : lims[s] = i
           \/ \E c \in DOMAIN cs : cs[c].ref = i
        THEN bs[i] ELSE Freed]

\* RateLimiter.Allow, the map lookup under the read lock: no limiter for the
\* service returns false
AllowLookup(c) ==
    /\ callers[c].pc = "idle"
    /\ issued < MaxCalls
    /\ issued' = issued + 1
    /\ \E s \in DOMAIN limiters \cup {UnknownService} :
          callers' = [callers EXCEPT ![c] =
              IF s \in DOMAIN limiters
              THEN [IdleCaller EXCEPT !.pc = "allow", !.service = s, !.ref = limiters[s]]
              ELSE [IdleCaller EXCEPT !.service = s, !.result = "false"]]
    /\ UNCHANGED <<now, buckets, limiters>>

AllowRun_AlwaysTrue(c) ==
    /\ callers[c].pc = "allow"
    /\ callers' = [callers EXCEPT ![c] = Returned(@, "true")]
    /\ buckets' = Collect([buckets EXCEPT ![callers[c].ref] = Grant(@)], limiters, callers')
    /\ UNCHANGED <<now, limiters, issued>>

\* RateLimiter.Allow, limiter.Allow() on the limiter looked up
AllowRun(c) ==
    /\ callers[c].pc = "allow"
    /\ LET r == Reserve(buckets[callers[c].ref], now, 0) IN
          /\ callers' = [callers EXCEPT ![c] =
                Returned(@, IF r.ok THEN "true" ELSE "false")]
          /\ buckets' = Collect([buckets EXCEPT ![callers[c].ref] =
                                     IF r.ok THEN Grant(r.bucket) ELSE r.bucket],
                                 limiters, callers')
    /\ UNCHANGED <<now, limiters, issued>>

\* RateLimiter.Wait, the map lookup under the read lock: no limiter for the
\* service is an error
WaitLookup(c) ==
    /\ callers[c].pc = "idle"
    /\ issued < MaxCalls
    /\ issued' = issued + 1
    /\ \E s \in DOMAIN limiters \cup {UnknownService} :
          callers' = [callers EXCEPT ![c] =
              IF s \in DOMAIN limiters
              THEN [IdleCaller EXCEPT !.pc = "wait", !.service = s, !.ref = limiters[s]]
              ELSE [IdleCaller EXCEPT !.service = s, !.result = "error"]]
    /\ UNCHANGED <<now, buckets, limiters>>

\* RateLimiter.Wait, limiter.Wait(ctx) up to its reservation: an error when
\* the token would come after the deadline, nil at once when a token is
\* there, a sleep until the reserved token otherwise
WaitReserve(c) ==
    /\ callers[c].pc = "wait"
    /\ LET r == Reserve(buckets[callers[c].ref], now, WaitTimeout) IN
          /\ callers' = [callers EXCEPT ![c] =
                IF ~r.ok THEN Returned(@, "error")
                ELSE IF r.delay = 0 THEN Returned(@, "nil")
                ELSE [@ EXCEPT !.pc = "sleeping", !.until = now + r.delay]]
          /\ buckets' = Collect([buckets EXCEPT ![callers[c].ref] =
                                     IF r.ok /\ r.delay = 0 THEN Grant(r.bucket) ELSE r.bucket],
                                 limiters, callers')
    /\ UNCHANGED <<now, limiters, issued>>

\* RateLimiter.Wait, the timer of the reservation fires: nil
WaitWake(c) ==
    /\ callers[c].pc = "sleeping"
    /\ now >= callers[c].until
    /\ callers' = [callers EXCEPT ![c] = Returned(@, "nil")]
    /\ buckets' = Collect([buckets EXCEPT ![callers[c].ref] = Grant(@)], limiters, callers')
    /\ UNCHANGED <<now, limiters, issued>>

SetCustomLimit_ResetsAll ==
    /\ Len(buckets) < Cardinality(DOMAIN ServiceLimits) + Cardinality(CustomLimits)
    /\ \E l \in CustomLimits :
          /\ limiters' = [s \in DOMAIN limiters |-> Len(buckets) + 1]
          /\ buckets' = Collect(Append(buckets, NewLimiter(l.rate, l.burst, now)),
                                limiters', callers)
    /\ UNCHANGED <<now, callers, issued>>

\* RateLimiter.SetCustomLimit: under the write lock the service's limiter
\* is replaced by a new, full one; each of the custom limits is set once
SetCustomLimit ==
    /\ Len(buckets) < Cardinality(DOMAIN ServiceLimits) + Cardinality(CustomLimits)
    /\ \E s \in DOMAIN limiters, l \in CustomLimits :
          /\ limiters' = [limiters EXCEPT ![s] = Len(buckets) + 1]
          /\ buckets' = Collect(Append(buckets, NewLimiter(l.rate, l.burst, now)),
                                limiters', callers)
    /\ UNCHANGED <<now, callers, issued>>

\* GetLimiterStats' answer for a service without a limiter
NoStats == [service |-> "", limit |-> 0, burst |-> 0, current_tokens |-> 0]

\* RateLimiter.GetLimiterStats: the limiter is looked up in the map, limit
\* and burst are read from serviceLimits, current_tokens is limiter.Tokens()
GetLimiterStats(service) ==
    IF service \notin DOMAIN limiters THEN NoStats
    ELSE [service |-> service,
          limit |-> ServiceLimits[service].rate,
          burst |-> ServiceLimits[service].burst,
          current_tokens |-> Advance(buckets[limiters[service]], now).tokens]

\* a second passes
Tick ==
    /\ now < MaxTime
    /\ now' = now + 1
    /\ UNCHANGED <<buckets, limiters, callers, issued>>

\* NewRateLimiter: one full bucket per entry of serviceLimits
LimiterInit ==
    /\ now = 0
    /\ buckets = <<NewLimiter(ServiceLimits.spotify.rate, ServiceLimits.spotify.burst, 0),
                   NewLimiter(ServiceLimits.youtube.rate, ServiceLimits.youtube.burst, 0)>>
    /\ limiters = [spotify |-> 1, youtube |-> 2]
    /\ callers = [c \in Callers |-> IdleCaller]
    /\ issued = 0

\* ------------------------------------------------------------ RateLimitedHTTPClient
\* NewRateLimitedHTTPClient: maxRetries
MaxRetries == 3

\* the services a client is made for
ClientServices == {"youtube", UnknownService}

\* the reservations other callers hold on the client's limiter when Do is
\* called
Backlogs == {0, 5, 35}

\* the Retry-After header of a response received at time t: absent, a number
\* of seconds, an RFC1123 date (its time, in seconds of the clock), or text
\* that is neither
RetryAfters(t) ==
    {[kind |-> "absent", v |-> 0],
     [kind |-> "seconds", v |-> 0],
     [kind |-> "seconds", v |-> 2],
     [kind |-> "date", v |-> t + 3],
     [kind |-> "date", v |-> t - 1],
     [kind |-> "text", v |-> 0]}

NoHeader == [kind |-> "absent", v |-> 0]

\* the transport errors c.client.Do(req) fails with
TransportErrors == {"timeout", "reset"}

\* what c.client.Do(req) gives at time t: a transport error (cause), or a
\* response with its status, whether X-RateLimit-Remaining is "0", and
\* Retry-After
Outcomes(t) ==
    {[err |-> TRUE, cause |-> e, status |-> 0, remaining0 |-> FALSE, retryAfter |-> NoHeader] :
        e \in TransportErrors}
    \cup {[err |-> FALSE, cause |-> "", status |-> st, remaining0 |-> z, retryAfter |-> NoHeader] :
             st \in {200, 404, 500}, z \in BOOLEAN}
    \cup {[err |-> FALSE, cause |-> "", status |-> 429, remaining0 |-> FALSE, retryAfter |-> h] :
             h \in RetryAfters(t)}

NoResponse ==
    [err |-> FALSE, cause |-> "", status |-> 0, remaining0 |-> FALSE, retryAfter |-> NoHeader]

\* isRateLimited
isRateLimited(resp) == resp.status = 429 \/ resp.remaining0

\* getRetryAfter: the seconds given, the time until the date given, 0 for
\* no header and for text that parses as neither
getRetryAfter(resp, t) ==
    CASE resp.retryAfter.kind = "seconds" -> resp.retryAfter.v
      [] resp.retryAfter.kind = "date" -> resp.retryAfter.v - t
      [] OTHER -> 0

\* handleRateLimitResponse: the seconds slept after a rate-limited response
\* to attempt number `attempt`, received at time t
handleRateLimitResponse(resp, attempt, t) ==
    IF getRetryAfter(resp, t) > 0
    THEN getRetryAfter(resp, t)
    ELSE (attempt + 1) * 5

\* time.Sleep(time.Duration(attempt+1) * time.Second)
ErrorBackoff(attempt) == attempt + 1

NextAttempt_Same(attempt) == attempt

\* attempt++
NextAttempt(attempt) == attempt + 1

\* what the loop body decides: the seconds slept, whether Do goes round
\* again, and what it returns if not
Retry(seconds) == [sleep |-> seconds, again |-> TRUE, resp |-> NoResponse, err |-> ""]

Return(seconds, resp, err) == [sleep |-> seconds, again |-> FALSE, resp |-> resp, err |-> err]

OnTransportError_FirstCause(out, attempt) ==
    IF attempt = MaxRetries
    THEN Return(0, NoResponse, "timeout")
    ELSE Retry(ErrorBackoff(attempt))

\* Do, err != nil from c.client.Do: the last attempt returns nil and the
\* error, an earlier one sleeps attempt+1 seconds and continues
OnTransportError(out, attempt) ==
    IF attempt = MaxRetries
    THEN Return(0, NoResponse, out.cause)
    ELSE Retry(ErrorBackoff(attempt))

OnRateLimited_ReturnsResponse(out, attempt, t) ==
    IF attempt = MaxRetries
    THEN Return(handleRateLimitResponse(out, attempt, t), out, "")
    ELSE Retry(handleRateLimitResponse(out, attempt, t))

\* Do, c.isRateLimited(resp): handleRateLimitResponse sleeps, then the last
\* attempt returns nil and "rate limited after N retries", an earlier one
\* continues
OnRateLimited(out, attempt, t) ==
    IF attempt = MaxRetries
    THEN Return(handleRateLimitResponse(out, attempt, t), NoResponse, "rate limited")
    ELSE Retry(handleRateLimitResponse(out, attempt, t))

OnStatus_RetriesAll(out, attempt) ==
    IF attempt = MaxRetries
    THEN Return(0, out, "")
    ELSE Retry(ErrorBackoff(attempt))

OnStatus_NoBackoff(out, attempt) ==
    IF out.status >= 200 /\ out.status < 300 THEN Return(0, out, "")
    ELSE IF attempt = MaxRetries THEN Return(0, out, "")
    ELSE IF out.status >= 500 THEN Retry(0)
    ELSE Return(0, out, "")

\* Do, a response that is not rate-limited: 2xx is returned; on the last
\* attempt any response is returned; a status >= 500 sleeps attempt+1
\* seconds and continues; any other status is returned
OnStatus(out, attempt) ==
    IF out.status >= 200 /\ out.status < 300 THEN Return(0, out, "")
    ELSE IF attempt = MaxRetries THEN Return(0, out, "")
    ELSE IF out.status >= 500 THEN Retry(ErrorBackoff(attempt))
    ELSE Return(0, out, "")

\* the body of Do's loop after c.client.Do(req) gave `out` at time t
AfterExecute(out, attempt, t) ==
    IF out.err THEN OnTransportError(out, attempt)
    ELSE IF isRateLimited(out) THEN OnRateLimited(out, attempt, t)
    ELSE OnStatus(out, attempt)

\* an entry of the trace: n is the seconds waited or slept, and for an
\* execution the time of the clock
Event(kind, attempt, out, n) == [ev |-> kind, attempt |-> attempt, out |-> out, n |-> n]

WaitFailed_GoesOn(d) == [d EXCEPT !.pc = "execute"]

\* Do, c.rateLimiter.Wait failed: return nil, "rate limit error: ..."
WaitFailed(d) == [d EXCEPT !.pc = "returned", !.resp = NoResponse, !.err = "rate limit error"]

\* Do, c.rateLimiter.Wait(c.service) at the head of the loop: the error of
\* Wait ends Do; otherwise the client has slept until its token and goes on
\* to execute the request
DoWait ==
    /\ do.pc = "wait"
    /\ IF do.service \notin DOMAIN limiters
       THEN /\ do' = WaitFailed(do)
            /\ trace' = Append(trace, Event("refused", do.attempt, NoResponse, 0))
            /\ UNCHANGED <<now, buckets>>
       ELSE LET i == limiters[do.service]
                r == Reserve(buckets[i], now, WaitTimeout) IN
            IF r.ok
            THEN /\ now' = now + r.delay
                 /\ buckets' = [buckets EXCEPT ![i] = Grant(r.bucket)]
                 /\ do' = [do EXCEPT !.pc = "execute"]
                 /\ trace' = Append(trace, Event("admit", do.attempt, NoResponse, r.delay))
            ELSE /\ do' = WaitFailed(do)
                 /\ trace' = Append(trace, Event("refused", do.attempt, NoResponse, 0))
                 /\ UNCHANGED <<now, buckets>>
    /\ UNCHANGED limiters

\* Do, c.client.Do(req) and the rest of the loop body
DoExecute ==
    /\ do.pc = "execute"
    /\ \E out \in Outcomes(now) :
          LET a == AfterExecute(out, do.attempt, now)
              executed == Append(trace, Event("exec", do.attempt, out, now))
          IN /\ trace' = IF a.sleep > 0
                         THEN Append(executed, Event("sleep", do.attempt, NoResponse, a.sleep))
                         ELSE executed
             /\ now' = now + (IF a.sleep > 0 THEN a.sleep ELSE 0)
             /\ do' = IF a.again
                      THEN [do EXCEPT !.pc = "wait", !.attempt = NextAttempt(do.attempt)]
                      ELSE [do EXCEPT !.pc = "returned", !.resp = a.resp, !.err = a.err]
    /\ UNCHANGED <<buckets, limiters>>

NoClient == [pc |-> "none", service |-> "", attempt |-> 0, resp |-> NoResponse, err |-> ""]

\* no Do is called
NoClientInit ==
    /\ do = NoClient
    /\ trace = <<>>

\* Do is called on a client of one of the services, the limiter being
\* NewRateLimiter's with a backlog of reservations on it
ClientInit ==
    /\ now = 0
    /\ \E k \in Backlogs :
          buckets = <<NewLimiter(ServiceLimits.spotify.rate, ServiceLimits.spotify.burst, 0),
                      [NewLimiter(ServiceLimits.youtube.rate, ServiceLimits.youtube.burst, 0)
                          EXCEPT !.tokens = @ - k]>>
    /\ limiters = [spotify |-> 1, youtube |-> 2]
    /\ callers = [c \in Callers |-> IdleCaller]
    /\ issued = 0
    /\ \E s \in ClientServices : do = [NoClient EXCEPT !.pc = "wait", !.service = s]
    /\ trace = <<>>

\* ------------------------------------------------------------ auth.TokenManager
\* Tokens are numbered: an exchange gives the next access token (and the
\* next refresh token when the provider sends one); refresh token 0 is the
\* empty string.  Expiries are seconds of the clock.

\* time.Now().Add(5*time.Minute)
RefreshWindow == 300

\* time.Now().Add(-1 * time.Hour)
ForceBack == 3600

\* oauth2.Token.Valid: a token counts as expired this long before its expiry
ExpiryDelta == 10

\* UserService.TokenExpiry of the connection when it is loaded (the clock
\* is at 0)
Expiries == {0 - 100, 5, 60, 300, 301, 3600}

\* UserService.RefreshToken of the connection when it is loaded
RefreshTokens == {0, 1}

\* what the provider's token endpoint answers to an exchange: a rejection,
\* or a token that lasts expiresIn seconds, with or without a new refresh
\* token
Grants ==
    {[ok |-> FALSE, rotated |-> FALSE, expiresIn |-> 0]}
    \cup {[ok |-> TRUE, rotated |-> r, expiresIn |-> e] : r \in BOOLEAN, e \in {60, 3600}}

\* the seconds that pass between two calls
Elapses == {200}

\* oauth2.Token.Valid of the token built from the connection
TokenValid(c, t) == c.access # 0 /\ ~(c.expiry - ExpiryDelta < t)

NoRefresh(c, st) ==
    [conn |-> c, stored |-> st, err |-> "", exchanged |-> FALSE, saved |-> FALSE]

\* tm.db.Save(userService): every field of the caller's copy is written
SaveConnection(c, st, exchanged, saveOk) ==
    [conn |-> c, stored |-> IF saveOk THEN c ELSE st,
     err |-> IF saveOk THEN "" ELSE "save failed",
     exchanged |-> exchanged, saved |-> saveOk]

\* RefreshTokenIfNeeded, tokenSource.Token() gave an error
ExchangeRejected(c, st, exchanged) ==
    [conn |-> c, stored |-> st, err |-> "failed to refresh token",
     exchanged |-> exchanged, saved |-> FALSE]

\* RefreshTokenIfNeeded, the new token copied into the caller's copy
Refreshed(c, g, t) ==
    [c EXCEPT !.access = @ + 1,
              !.refresh = IF g.rotated THEN @ + 1 ELSE @,
              !.expiry = t + g.expiresIn]

RefreshTokenIfNeeded_Always(c, st, t, g, saveOk) ==
    IF c.refresh = 0 THEN ExchangeRejected(c, st, FALSE)
    ELSE IF ~g.ok THEN ExchangeRejected(c, st, TRUE)
    ELSE SaveConnection(Refreshed(c, g, t), st, TRUE, saveOk)

\* RefreshTokenIfNeeded on the caller's copy c at time t, the record in the
\* database being st: nothing when the expiry is more than 5 minutes away;
\* otherwise config.TokenSource(ctx, token).Token(), which hands back the
\* token it was given while that token is valid and exchanges the refresh
\* token only when it is not (without a refresh token it fails), and then
\* the copy is updated and saved
RefreshTokenIfNeeded(c, st, t, g, saveOk) ==
    IF c.expiry > t + RefreshWindow THEN NoRefresh(c, st)
    ELSE IF TokenValid(c, t) THEN SaveConnection(c, st, FALSE, saveOk)
    ELSE IF c.refresh = 0 THEN ExchangeRejected(c, st, FALSE)
    ELSE IF ~g.ok THEN ExchangeRejected(c, st, TRUE)
    ELSE SaveConnection(Refreshed(c, g, t), st, TRUE, saveOk)

\* ForceRefreshToken: the expiry of the caller's copy is set an hour back,
\* then RefreshTokenIfNeeded
ForceRefreshToken(c, st, t, g, saveOk) ==
    RefreshTokenIfNeeded([c EXCEPT !.expiry = t - ForceBack], st, t, g, saveOk)

\* the record of a call of the token manager
Called(op, r, whoami, valid) ==
    [n |-> tm.n + 1, op |-> op, err |-> r.err, exchanged |-> r.exchanged,
     saved |-> r.saved, whoami |-> whoami, valid |-> valid]

\* a call of RefreshTokenIfNeeded
EnsureFresh ==
    /\ tm.n < MaxTokenCalls
    /\ \E g \in Grants, saveOk \in BOOLEAN :
          LET r == RefreshTokenIfNeeded(conn, stored, now, g, saveOk) IN
          /\ conn' = r.conn
          /\ stored' = r.stored
          /\ tm' = Called("ensureFresh", r, FALSE, FALSE)

\* a call of ForceRefreshToken
ForceRefresh ==
    /\ tm.n < MaxTokenCalls
    /\ \E g \in Grants, saveOk \in BOOLEAN :
          LET r == ForceRefreshToken(conn, stored, now, g, saveOk) IN
          /\ conn' = r.conn
          /\ stored' = r.stored
          /\ tm' = Called("forceRefresh", r, FALSE, FALSE)

\* a call of ValidateToken: the error of RefreshTokenIfNeeded is returned
\* with false; otherwise the test call to the provider decides
ValidateToken ==
    /\ tm.n < MaxTokenCalls
    /\ \E g \in Grants, saveOk \in BOOLEAN, answer \in {"200", "401", "error"} :
          LET r == RefreshTokenIfNeeded(conn, stored, now, g, saveOk) IN
          /\ conn' = r.conn
          /\ stored' = r.stored
          /\ tm' = IF r.err # ""
                   THEN Called("validate", r, FALSE, FALSE)
                   ELSE Called("validate", [r EXCEPT !.err = IF answer = "error" THEN "transport" ELSE ""],
                               TRUE, answer = "200")

\* time passes between two calls
Elapse ==
    /\ \E d \in Elapses : now + d <= MaxClock /\ now' = now + d
    /\ UNCHANGED <<conn, stored, tm>>

NoCall == [n |-> 0, op |-> "", err |-> "", exchanged |-> FALSE, saved |-> FALSE,
           whoami |-> FALSE, valid |-> FALSE]

NoConnection == [service |-> "", access |-> 0, refresh |-> 0, expiry |-> 0]

\* the token manager is not used
NoTokenInit ==
    /\ conn = NoConnection
    /\ stored = NoConnection
    /\ tm = NoCall

\* a connection is loaded from user_services
TokenInit ==
    /\ \E s \in Services, e \in Expiries, r \in RefreshTokens :
          conn = [service |-> s, access |-> 1, refresh |-> r, expiry |-> e]
    /\ stored = conn
    /\ tm = NoCall

\* ------------------------------------------------------------ match confidence
\* A string is a sequence of symbols: a letter, a space, or a word that the
\* code looks for as a whole ("-live" stands for " - live", "(live" for
\* " (live").  Confidences are in tenths.

\* the symbols of track names
NameSymbols == {"a", "A", " ", "-live", "(live"}

\* the track names compared: every string of at most MaxNameLen symbols
Names == UNION {[1..n -> NameSymbols] : n \in 0..MaxNameLen}

\* the artists compared
Artists == {<<>>, <<"A">>, <<"b">>, <<"a", "b">>}

\* the video titles scored
Titles == {<<>>, <<"A">>, <<"a", "b">>, <<"b", "Official">>, <<"a", "b", "official", "audio">>}

\* the video descriptions scored
Descriptions == {<<>>, <<"Music">>}

\* strings.ToLower, of a symbol and of a string
LowerSymbol(ch) ==
    CASE ch = "A" -> "a"
      [] ch = "Official" -> "official"
      [] ch = "Music" -> "music"
      [] OTHER -> ch

ToLower(s) == [i \in DOMAIN s |-> LowerSymbol(s[i])]

\* strings.TrimSpace
RECURSIVE TrimLeft(_)
TrimLeft(s) == IF s # <<>> /\ Head(s) = " " THEN TrimLeft(Tail(s)) ELSE s

RECURSIVE TrimRight(_)
TrimRight(s) ==
    IF s # <<>> /\ s[Len(s)] = " " THEN TrimRight(SubSeq(s, 1, Len(s) - 1)) ELSE s

TrimSpace(s) == TrimRight(TrimLeft(s))

\* the places where sub occurs in s, counted from 0
Occurrences(s, sub) ==
    {i \in 0..(Len(s) - Len(sub)) : SubSeq(s, i + 1, i + Len(sub)) = sub}

\* strings.Contains
Contains(s, sub) == Occurrences(s, sub) # {}

\* strings.Index
Index(s, sub) ==
    IF Occurrences(s, sub) = {} THEN 0 - 1
    ELSE CHOOSE i \in Occurrences(s, sub) : \A j \in Occurrences(s, sub) : i <= j

\* removeCommonSuffixes: suffixes
CommonSuffixes ==
    <<<<"-remaster">>, <<"(remaster">>, <<"-live">>, <<"(live">>, <<"-acoustic">>, <<"(acoustic">>>>

\* removeCommonSuffixes, the loop from suffix k on
RECURSIVE CutSuffixes(_, _)
CutSuffixes(result, k) ==
    IF k > Len(CommonSuffixes) THEN result
    ELSE IF Index(result, CommonSuffixes[k]) # 0 - 1
         THEN CutSuffixes(SubSeq(result, 1, Index(result, CommonSuffixes[k])), k + 1)
         ELSE CutSuffixes(result, k + 1)

removeCommonSuffixes(name) == TrimSpace(CutSuffixes(name, 1))

\* calculateMatchConfidence, name matching
NameScore(sourceName, targetName) ==
    LET s == ToLower(TrimSpace(sourceName))
        t == ToLower(TrimSpace(targetName))
    IN IF s = t THEN 6
       ELSE IF Contains(s, t) \/ Contains(t, s) THEN 4
       ELSE IF removeCommonSuffixes(s) = removeCommonSuffixes(t) THEN 5
       ELSE 0

ArtistScore_Doubled(sourceArtist, targetArtist) ==
    LET s == ToLower(TrimSpace(sourceArtist))
        t == ToLower(TrimSpace(targetArtist))
    IN IF s = t THEN 8
       ELSE IF Contains(s, t) \/ Contains(t, s) THEN 4
       ELSE 0

\* calculateMatchConfidence, artist matching
ArtistScore(sourceArtist, targetArtist) ==
    LET s == ToLower(TrimSpace(sourceArtist))
        t == ToLower(TrimSpace(targetArtist))
    IN IF s = t THEN 4
       ELSE IF Contains(s, t) \/ Contains(t, s) THEN 2
       ELSE 0

\* a confidence and what it was added up from
Scored(name, artist, terms, total) ==
    [name |-> name, artist |-> artist, terms |-> terms, total |-> total]

\* calculateMatchConfidence
calculateMatchConfidence(sourceName, sourceArtist, targetName, targetArtist) ==
    Scored(NameScore(sourceName, targetName), ArtistScore(sourceArtist, targetArtist), <<>>,
           NameScore(sourceName, targetName) + ArtistScore(sourceArtist, targetArtist))

RECURSIVE Sum(_)
Sum(terms) == IF terms = <<>> THEN 0 ELSE Head(terms) + Sum(Tail(terms))

\* calculateYouTubeMatchConfidence: the terms added, in order
YouTubeTerms(trackName, artist, title, description) ==
    LET titleLower == ToLower(title)
        descLower == ToLower(description)
    IN (IF Contains(titleLower, ToLower(trackName)) THEN <<4>> ELSE <<>>)
       \o (IF Contains(titleLower, ToLower(artist)) THEN <<3>> ELSE <<>>)
       \o (IF Contains(titleLower, <<"official">>) THEN <<2>> ELSE <<>>)
       \o (IF Contains(titleLower, <<"audio">>) \/ Contains(descLower, <<"music">>)
           THEN <<1>> ELSE <<>>)

\* calculateYouTubeMatchConfidence
calculateYouTubeMatchConfidence(trackName, artist, title, description) ==
    Scored(0, 0, YouTubeTerms(trackName, artist, title, description),
           Sum(YouTubeTerms(trackName, artist, title, description)))

NoScore == Scored(0, 0, <<>>, 0 - 1)

NoMatch == [path |-> "", name |-> <<>>, artist |-> <<>>, other |-> <<>>, extra |-> <<>>]

\* a call of calculateMatchConfidence on a source track and a search result
ScoreStructured ==
    /\ match.path = "structured"
    /\ score = NoScore
    /\ score' = calculateMatchConfidence(match.name, match.artist, match.other, match.extra)
    /\ UNCHANGED match

\* a call of calculateYouTubeMatchConfidence on a source track and a video
ScoreUnstructured ==
    /\ match.path = "unstructured"
    /\ score = NoScore
    /\ score' = calculateYouTubeMatchConfidence(match.name, match.artist, match.other, match.extra)
    /\ UNCHANGED match

\* no track is scored
NoScoreInit ==
    /\ match = NoMatch
    /\ score = NoScore

\* a source track and a candidate: for the structured path the candidate's
\* name and artist, for the unstructured path the video's title and
\* description
ScoreInit ==
    /\ \/ \E n \in Names, a \in Artists, tn \in Names, ta \in Artists :
             match = [path |-> "structured", name |-> n, artist |-> a, other |-> tn, extra |-> ta]
       \/ \E n \in Artists, a \in Artists, t \in Titles, d \in Descriptions :
             match = [path |-> "unstructured", name |-> n, artist |-> a, other |-> t, extra |-> d]
    /\ score = NoScore

\* ------------------------------------------------------------ OAuth callback
\* the users whose callbacks arrive
CallbackUsers == {1, 2}

\* the requests that run HandleServiceCallback at the same time
Handlers == {"h1", "h2"}

\* a request that is not in the handler
IdleHandler == [pc |-> "idle", user |-> 0, provider |-> "", token |-> 0, existing |-> 0]

\* the callbacks that have entered the handler so far
Entered == Len(userServiceLog)

\* the rows of user_services of a user and a provider, by primary key
RowsOf(user, provider) ==
    {i \in DOMAIN userServices :
        userServices[i].user = user /\ userServices[i].provider = provider}

\* the UserService value built from the exchanged token
CallbackEnter(h) ==
    /\ callbacks[h].pc = "idle"
    /\ Entered < MaxCallbacks
    /\ \E u \in CallbackUsers, p \in Services :
          /\ callbacks' = [callbacks EXCEPT ![h] =
                [pc |-> "lookup", user |-> u, provider |-> p, token |-> Entered + 1,
                 existing |-> 0]]
          /\ userServiceLog' = Append(userServiceLog, [user |-> u, provider |-> p])
    /\ UNCHANGED userServices

\* DB.Where("user_id = ? AND service_type = ?").First(&existingService)
CallbackLookup(h) ==
    /\ callbacks[h].pc = "lookup"
    /\ LET rows == RowsOf(callbacks[h].user, callbacks[h].provider)
       IN callbacks' = [callbacks EXCEPT ![h] =
             IF rows = {} THEN [@ EXCEPT !.pc = "notfound"]
             ELSE [@ EXCEPT !.pc = "found",
                            !.existing = CHOOSE i \in rows : \A j \in rows : i <= j]]
    /\ UNCHANGED <<userServices, userServiceLog>>

\* case gorm.ErrRecordNotFound: DB.Create(&userService), its error only logged
CallbackCreate(h) ==
    /\ callbacks[h].pc = "notfound"
    /\ \E ok \in BOOLEAN :
          userServices' =
             IF ok THEN Append(userServices,
                           [user |-> callbacks[h].user, provider |-> callbacks[h].provider,
                            token |-> callbacks[h].token])
             ELSE userServices
    /\ callbacks' = [callbacks EXCEPT ![h] = IdleHandler]
    /\ UNCHANGED userServiceLog

\* case nil: the token fields copied to existingService and DB.Save, its
\* error only logged
CallbackUpdate(h) ==
    /\ callbacks[h].pc = "found"
    /\ \E ok \in BOOLEAN :
          userServices' =
             IF ok THEN [userServices EXCEPT ![callbacks[h].existing].token = callbacks[h].token]
             ELSE userServices
    /\ callbacks' = [callbacks EXCEPT ![h] = IdleHandler]
    /\ UNCHANGED userServiceLog

\* no callback arrives
NoOAuthInit ==
    /\ userServices = <<>>
    /\ callbacks = [h \in Handlers |-> IdleHandler]
    /\ userServiceLog = <<>>

\* ------------------------------------------------------------ searchYouTubeTrack
\* the source tracks searched for
SearchedTracks == {[name |-> <<"A">>, artist |-> <<"b">>],
                   [name |-> <<"a", "b">>, artist |-> <<>>]}

\* the videos of a search response: the videoId is the position in the
\* response
Videos == [title : Titles, description : Descriptions]

\* the search responses: at most MaxResults items
Responses == UNION {[1..n -> Videos] : n \in 0..MaxResults}

\* the confidence of item k of the response
ItemConfidence(track, items, k) ==
    calculateYouTubeMatchConfidence(track.name, track.artist,
                                    items[k].title, items[k].description).total

Better_OrEqual(confidence, bestConfidence) == confidence >= bestConfidence

\* if confidence > bestConfidence
Better(confidence, bestConfidence) == confidence > bestConfidence

\* the loop over the items from item k on, with the best match so far
RECURSIVE BestFrom(_, _, _, _, _)
BestFrom(track, items, k, bestMatch, bestConfidence) ==
    IF k > Len(items) THEN [err |-> FALSE, id |-> bestMatch, conf |-> bestConfidence]
    ELSE IF Better(ItemConfidence(track, items, k), bestConfidence)
         THEN BestFrom(track, items, k + 1, k, ItemConfidence(track, items, k))
         ELSE BestFrom(track, items, k + 1, bestMatch, bestConfidence)

\* searchYouTubeTrack on a decoded response: no item is an error, else the
\* loop starts from the first item and confidence 0.0
searchYouTubeTrack(track, items) ==
    IF Len(items) = 0 THEN [err |-> TRUE, id |-> 0, conf |-> 0]
    ELSE BestFrom(track, items, 1, 1, 0)

NoSearch == [track |-> [name |-> <<>>, artist |-> <<>>], items |-> <<>>]

NotSearched == [err |-> FALSE, id |-> 0, conf |-> 0 - 1]

\* a call of searchYouTubeTrack whose request was answered with status 200
SearchYouTube ==
    /\ found = NotSearched
    /\ search # NoSearch
    /\ found' = searchYouTubeTrack(search.track, search.items)
    /\ UNCHANGED search

\* no search is made
NoSearchInit ==
    /\ search = NoSearch
    /\ found = NotSearched

\* a source track and the response to its search
SearchInit ==
    /\ \E t \in SearchedTracks, r \in Responses : search = [track |-> t, items |-> r]
    /\ found = NotSearched

\* ------------------------------------------------------------ parseYouTubeTitle
\* A title is a string of symbols as above; each listed suffix is one symbol.

\* parseYouTubeTitle: suffixes
YouTubeSuffixes ==
    {"(Official Video)", "(Official Audio)", "[Official Video]", "[Official Audio]",
     "(Official Music Video)", "[Official Music Video]", "(Lyric Video)", "[Lyric Video]",
     "(Visualizer)", "[Visualizer]", "(Lyrics)", "[Lyrics]", "(Live)", "[Live]",
     "(Acoustic)", "[Acoustic]", "(Remix)", "[Remix]", "(Cover)", "[Cover]",
     "| Official Video", "| Official Audio", "| Official Music Video"}

\* parseYouTubeTitle: patterns, each by the separators of its character
\* class ("en-dash" and "em-dash" are the symbols U+2013 and U+2014)
Patterns == <<{"-", "en-dash", "em-dash"}, {":"}, {"|"}, {"-"}>>

\* the symbols of the titles parsed
TitleSymbols == {"x", " ", "-", "en-dash", ":", "|", "(Official Video)"}

\* the two titles of the documentation
DaftPunkTitle ==
    <<"Daft", " ", "Punk", " ", "-", " ", "One", " ", "More", " ", "Time", " ",
      "(Official Video)">>

IntroTitle == <<"Intro">>

\* the titles parsed: every string of at most MaxTitleLen symbols and the
\* two titles of the documentation
ParsedTitles ==
    UNION {[1..n -> TitleSymbols] : n \in 0..MaxTitleLen} \cup {DaftPunkTitle, IntroTitle}

\* strings.Replace(title, suffix, "", -1) for every suffix
IsNoSuffix(ch) == ch \notin YouTubeSuffixes

RemoveSuffixes(t) == SelectSeq(t, IsNoSuffix)

\* the places of a separator of the class in the title
SeparatorsAt(t, seps) == {i \in DOMAIN t : t[i] \in seps}

\* regexp ^(.*?)\s*[seps]\s*(.*)$ : FindStringSubmatch, with the two groups
\* trimmed; the lazy first group ends before the first separator
FindStringSubmatch(t, seps) ==
    IF SeparatorsAt(t, seps) = {} THEN [matched |-> FALSE, artist |-> <<>>, track |-> <<>>]
    ELSE LET i == CHOOSE j \in SeparatorsAt(t, seps) : \A k \in SeparatorsAt(t, seps) : j <= k
         IN [matched |-> TRUE,
             artist |-> TrimSpace(SubSeq(t, 1, i - 1)),
             track |-> TrimSpace(SubSeq(t, i + 1, Len(t)))]

\* the loop over the patterns from pattern k on, and the fallback after it
RECURSIVE TryPatterns(_, _)
TryPatterns(t, k) ==
    IF k > Len(Patterns) THEN [artist |-> <<>>, track |-> t]
    ELSE LET m == FindStringSubmatch(t, Patterns[k])
         IN IF m.matched /\ m.artist # <<>> /\ m.track # <<>>
            THEN [artist |-> m.artist, track |-> m.track]
            ELSE TryPatterns(t, k + 1)

\* parseYouTubeTitle
parseYouTubeTitle(t) == TryPatterns(TrimSpace(RemoveSuffixes(TrimSpace(t))), 1)

NoTitle == <<"">>

NotParsed == [artist |-> <<"">>, track |-> <<"">>]

\* a call of parseYouTubeTitle
ParseTitle ==
    /\ videoTitle # NoTitle
    /\ parsed = NotParsed
    /\ parsed' = parseYouTubeTitle(videoTitle)
    /\ UNCHANGED videoTitle

\* no title is parsed
NoTitleInit ==
    /\ videoTitle = NoTitle
    /\ parsed = NotParsed

\* a title to parse
TitleInit ==
    /\ videoTitle \in ParsedTitles
    /\ parsed = NotParsed

\* ------------------------------------------------------------ GetTransferDetails
\* the users that own transfers and ask for them
Owners == {1, 2}

\* the transfer ids in use
TransferIDs == 1..MaxTransfers

\* the source tracks a transfer may have rows for
RowTracks == 1..2

\* the tables: at most one transfers row per id, and transfer_tracks rows
\* of transfers that exist
Tables ==
    {[transfers |-> t, tracks |-> k] :
        t \in {x \in SUBSET [id : TransferIDs, userID : Owners] :
                 \A a, b \in x : a.id = b.id => a = b},
        k \in SUBSET [transferID : TransferIDs, sourceTrackID : RowTracks]}

\* transfer_tracks rows are written by the task of an existing transfer
TablesConsistent(t) ==
    \A k \in t.tracks : \E x \in t.transfers : x.id = k.transferID

\* c.Param("id")
IDParams == {"1", "2", "3", "9", "abc", "-1", ""}

\* strconv.ParseUint(transferID, 10, 32): the number, or an error
ParseUint(p) ==
    CASE p = "1" -> [err |-> FALSE, n |-> 1]
      [] p = "2" -> [err |-> FALSE, n |-> 2]
      [] p = "3" -> [err |-> FALSE, n |-> 3]
      [] p = "9" -> [err |-> FALSE, n |-> 9]
      [] OTHER -> [err |-> TRUE, n |-> 0]

NoTransferRow == [id |-> 0, userID |-> 0]

\* an answer of the handler
Answer(status, transfer, tracks, error) ==
    [status |-> status, transfer |-> transfer, tracks |-> tracks, error |-> error]

FindTransfer_AnyOwner(t, id, user) == {x \in t.transfers : x.id = id}

\* DB.Where("id = ? AND user_id = ?", id, user.ID).First(&transfer)
FindTransfer(t, id, user) == {x \in t.transfers : x.id = id /\ x.userID = user}

\* DB.Where("transfer_id = ?", transfer.ID).Find(&transferTracks)
FindTracks(t, id) == {k \in t.tracks : k.transferID = id}

\* GetTransferDetails for a request: authenticated or not, its user, its id
\* parameter, and whether each of the two queries fails in the database
GetTransferDetailsAnswer(t, authenticated, user, param, firstFails, findFails) ==
    IF ~authenticated THEN Answer(401, NoTransferRow, {}, "User not authenticated")
    ELSE IF ParseUint(param).err THEN Answer(400, NoTransferRow, {}, "Invalid transfer ID")
    ELSE IF firstFails \/ FindTransfer(t, ParseUint(param).n, user) = {}
         THEN Answer(404, NoTransferRow, {}, "Transfer not found")
    ELSE LET transfer == CHOOSE x \in FindTransfer(t, ParseUint(param).n, user) : TRUE
         IN Answer(200, transfer, IF findFails THEN {} ELSE FindTracks(t, transfer.id), "")

NoDetails == [authenticated |-> FALSE, user |-> 0, param |-> "",
              answer |-> Answer(0, NoTransferRow, {}, "")]

NoTables == [transfers |-> {}, tracks |-> {}]

\* GET /transfers/:id
GetTransferDetails ==
    /\ details = NoDetails
    /\ transferRows # NoTables
    /\ \E authenticated \in BOOLEAN, user \in Owners, param \in IDParams,
          firstFails \in BOOLEAN, findFails \in BOOLEAN :
          details' = [authenticated |-> authenticated, user |-> user, param |-> param,
                      answer |-> GetTransferDetailsAnswer(transferRows, authenticated, user,
                                                          param, firstFails, findFails)]
    /\ UNCHANGED transferRows

\* no request for details
NoDetailsInit ==
    /\ transferRows = NoTables
    /\ details = NoDetails

\* the tables when a request arrives
DetailsInit ==
    /\ transferRows \in {t \in Tables : TablesConsistent(t) /\ t # NoTables}
    /\ details = NoDetails

\* ------------------------------------------------------------ RateLimitMonitor and the limiter's locks
\* the goroutines that call the monitor and the limiter
Goroutines == {"g1", "g2", "g3"}

\* the locks: RateLimitMonitor.mu, RequestMetrics.mu of each service, and
\* RateLimiter.mutex
MonitorMu == "monitor"

LimiterMu == "limiter"

LockNames == {MonitorMu, LimiterMu} \cup Services

\* sync.RWMutex: the goroutines holding it for reading, the goroutine
\* holding it for writing, and the goroutines blocked in Lock
FreeMutex == [readers |-> {}, writer |-> "", pending |-> {}]

\* RLock returns: no writer holds the mutex and none is blocked in Lock
CanRLock(l) == l.writer = "" /\ l.pending = {}

\* Lock returns: nobody holds the mutex
CanLock(l) == l.writer = "" /\ l.readers = {}

RLocked(l, g) == [l EXCEPT !.readers = @ \cup {g}]

RUnlocked(l, g) == [l EXCEPT !.readers = @ \ {g}]

LockCalled(l, g) == [l EXCEPT !.pending = @ \cup {g}]

Locked(l, g) == [l EXCEPT !.writer = g, !.pending = @ \ {g}]

Unlocked(l) == [l EXCEPT !.writer = ""]

\* &RequestMetrics{}, and no entry in the map
NewMetrics == [exists |-> TRUE, total |-> 0, rateLimited |-> 0, errors |-> 0]

NoMetrics == [exists |-> FALSE, total |-> 0, rateLimited |-> 0, errors |-> 0]

IdleGoroutine ==
    [pc |-> "idle", op |-> "", service |-> "", wasRateLimited |-> FALSE, hadError |-> FALSE,
     todo |-> {}, tmp |-> 0]

\* a goroutine calls RecordRequest: m.mu.Lock() is called
RecordRequest(g) ==
    /\ goroutines[g].pc = "idle"
    /\ opsBegun < MaxOps
    /\ opsBegun' = opsBegun + 1
    /\ \E s \in Services, rl \in BOOLEAN, he \in BOOLEAN :
          goroutines' = [goroutines EXCEPT ![g] =
              [IdleGoroutine EXCEPT !.pc = "record_lock", !.op = "record", !.service = s,
                                    !.wasRateLimited = rl, !.hadError = he]]
    /\ mu' = [mu EXCEPT ![MonitorMu] = LockCalled(@, g)]
    /\ UNCHANGED <<metrics, recorded>>

\* RecordRequest: m.mu.Lock() returns; the metrics of the service are made
\* if the map has none; metrics.mu.Lock() is called
RecordLocked(g) ==
    /\ goroutines[g].pc = "record_lock"
    /\ CanLock(mu[MonitorMu])
    /\ metrics' = [metrics EXCEPT ![goroutines[g].service] =
                      IF @.exists THEN @ ELSE NewMetrics]
    /\ mu' = [mu EXCEPT ![MonitorMu] = Locked(@, g),
                        ![goroutines[g].service] = LockCalled(@, g)]
    /\ goroutines' = [goroutines EXCEPT ![g].pc = "record_lock_metrics"]
    /\ UNCHANGED <<recorded, opsBegun>>

\* RecordRequest: metrics.mu.Lock() returns; TotalRequests is read
RecordMetricsLocked(g) ==
    /\ goroutines[g].pc = "record_lock_metrics"
    /\ CanLock(mu[goroutines[g].service])
    /\ mu' = [mu EXCEPT ![goroutines[g].service] = Locked(@, g)]
    /\ goroutines' = [goroutines EXCEPT ![g].pc = "record_count",
                                        ![g].tmp = metrics[goroutines[g].service].total]
    /\ UNCHANGED <<metrics, recorded, opsBegun>>

\* RecordRequest: TotalRequests++, RateLimited++ and Errors++ are written
RecordCount(g) ==
    /\ goroutines[g].pc = "record_count"
    /\ metrics' = [metrics EXCEPT ![goroutines[g].service] =
          [@ EXCEPT !.total = goroutines[g].tmp + 1,
                    !.rateLimited = IF goroutines[g].wasRateLimited THEN @ + 1 ELSE @,
                    !.errors = IF goroutines[g].hadError THEN @ + 1 ELSE @]]
    /\ recorded' = [recorded EXCEPT ![goroutines[g].service] = @ + 1]
    /\ goroutines' = [goroutines EXCEPT ![g].pc = "record_unlock"]
    /\ UNCHANGED <<mu, opsBegun>>

\* RecordRequest returns: the deferred metrics.mu.Unlock() and m.mu.Unlock()
RecordUnlock(g) ==
    /\ goroutines[g].pc = "record_unlock"
    /\ mu' = [mu EXCEPT ![goroutines[g].service] = Unlocked(@),
                        ![MonitorMu] = Unlocked(@)]
    /\ goroutines' = [goroutines EXCEPT ![g] = IdleGoroutine]
    /\ UNCHANGED <<metrics, recorded, opsBegun>>

\* a goroutine calls GetMetrics: m.mu.RLock() is called
GetMetrics(g) ==
    /\ goroutines[g].pc = "idle"
    /\ opsBegun < MaxOps
    /\ opsBegun' = opsBegun + 1
    /\ goroutines' = [goroutines EXCEPT ![g] =
          [IdleGoroutine EXCEPT !.pc = "metrics_rlock", !.op = "metrics"]]
    /\ UNCHANGED <<mu, metrics, recorded>>

\* the range loop of GetMetrics goes to one of the services left (the order
\* of a map range is not fixed), or ends
NextService(gr, left) ==
    IF left = {}
    THEN {[gr EXCEPT !.pc = "metrics_runlock", !.service = "", !.todo = {}]}
    ELSE {[gr EXCEPT !.pc = "metrics_rlock_service", !.service = s, !.todo = left] :
             s \in left}

\* GetMetrics: m.mu.RLock() returns and the loop over the map begins
MetricsRLocked(g) ==
    /\ goroutines[g].pc = "metrics_rlock"
    /\ CanRLock(mu[MonitorMu])
    /\ mu' = [mu EXCEPT ![MonitorMu] = RLocked(@, g)]
    /\ \E next \in NextService(goroutines[g], {s \in Services : metrics[s].exists}) :
          goroutines' = [goroutines EXCEPT ![g] = next]
    /\ UNCHANGED <<metrics, recorded, opsBegun>>

\* GetMetrics: metrics.mu.RLock() returns for the service of the iteration
MetricsServiceRLocked(g) ==
    /\ goroutines[g].pc = "metrics_rlock_service"
    /\ CanRLock(mu[goroutines[g].service])
    /\ mu' = [mu EXCEPT ![goroutines[g].service] = RLocked(@, g)]
    /\ goroutines' = [goroutines EXCEPT ![g].pc = "metrics_stats"]
    /\ UNCHANGED <<metrics, recorded, opsBegun>>

\* GetMetrics: m.rateLimiter.GetLimiterStats(service), rl.mutex.RLock()
\* returns
MetricsStatsRLocked(g) ==
    /\ goroutines[g].pc = "metrics_stats"
    /\ CanRLock(mu[LimiterMu])
    /\ mu' = [mu EXCEPT ![LimiterMu] = RLocked(@, g)]
    /\ goroutines' = [goroutines EXCEPT ![g].pc = "metrics_stats_runlock"]
    /\ UNCHANGED <<metrics, recorded, opsBegun>>

\* GetMetrics: GetLimiterStats' rl.mutex.RUnlock()
MetricsStatsRUnlock(g) ==
    /\ goroutines[g].pc = "metrics_stats_runlock"
    /\ mu' = [mu EXCEPT ![LimiterMu] = RUnlocked(@, g)]
    /\ goroutines' = [goroutines EXCEPT ![g].pc = "metrics_runlock_service"]
    /\ UNCHANGED <<metrics, recorded, opsBegun>>

\* GetMetrics: metrics.mu.RUnlock() at the end of the iteration
MetricsServiceRUnlock(g) ==
    /\ goroutines[g].pc = "metrics_runlock_service"
    /\ mu' = [mu EXCEPT ![goroutines[g].service] = RUnlocked(@, g)]
    /\ \E next \in NextService(goroutines[g], goroutines[g].todo \ {goroutines[g].service}) :
          goroutines' = [goroutines EXCEPT ![g] = next]
    /\ UNCHANGED <<metrics, recorded, opsBegun>>

\* GetMetrics returns: the deferred m.mu.RUnlock()
MetricsRUnlock(g) ==
    /\ goroutines[g].pc = "metrics_runlock"
    /\ mu' = [mu EXCEPT ![MonitorMu] = RUnlocked(@, g)]
    /\ goroutines' = [goroutines EXCEPT ![g] = IdleGoroutine]
    /\ UNCHANGED <<metrics, recorded, opsBegun>>

\* a goroutine calls Wait, Allow or GetLimiterStats of the limiter:
\* rl.mutex.RLock() is called
LimiterCall(g) ==
    /\ goroutines[g].pc = "idle"
    /\ opsBegun < MaxOps
    /\ opsBegun' = opsBegun + 1
    /\ \E op \in {"wait", "allow", "stats"} :
          goroutines' = [goroutines EXCEPT ![g] =
              [IdleGoroutine EXCEPT !.pc = "limiter_rlock", !.op = op]]
    /\ UNCHANGED <<mu, metrics, recorded>>

\* Wait, Allow, GetLimiterStats: rl.mutex.RLock() returns
LimiterRLocked(g) ==
    /\ goroutines[g].pc = "limiter_rlock"
    /\ CanRLock(mu[LimiterMu])
    /\ mu' = [mu EXCEPT ![LimiterMu] = RLocked(@, g)]
    /\ goroutines' = [goroutines EXCEPT ![g].pc = "limiter_runlock"]
    /\ UNCHANGED <<metrics, recorded, opsBegun>>

LimiterRUnlock_WaitsLocked(g) ==
    /\ goroutines[g].pc = "limiter_runlock"
    /\ mu' = IF goroutines[g].op = "wait" THEN mu
             ELSE [mu EXCEPT ![LimiterMu] = RUnlocked(@, g)]
    /\ goroutines' = [goroutines EXCEPT ![g] =
          IF @.op = "wait" THEN [@ EXCEPT !.pc = "wait_token"] ELSE IdleGoroutine]
    /\ UNCHANGED <<metrics, recorded, opsBegun>>

\* Wait, Allow, GetLimiterStats: rl.mutex.RUnlock() after the map lookup;
\* Allow and GetLimiterStats return, Wait goes on to limiter.Wait(ctx)
LimiterRUnlock(g) ==
    /\ goroutines[g].pc = "limiter_runlock"
    /\ mu' = [mu EXCEPT ![LimiterMu] = RUnlocked(@, g)]
    /\ goroutines' = [goroutines EXCEPT ![g] =
          IF @.op = "wait" THEN [@ EXCEPT !.pc = "wait_token"] ELSE IdleGoroutine]
    /\ UNCHANGED <<metrics, recorded, opsBegun>>

\* Wait: limiter.Wait(ctx) returns, with a token or at its timeout
WaitReturns(g) ==
    /\ goroutines[g].pc = "wait_token"
    /\ goroutines' = [goroutines EXCEPT ![g] = IdleGoroutine]
    /\ UNCHANGED <<mu, metrics, recorded, opsBegun>>

\* a goroutine calls SetCustomLimit: rl.mutex.Lock() is called
ConfigureCall(g) ==
    /\ goroutines[g].pc = "idle"
    /\ opsBegun < MaxOps
    /\ opsBegun' = opsBegun + 1
    /\ goroutines' = [goroutines EXCEPT ![g] =
          [IdleGoroutine EXCEPT !.pc = "configure_lock", !.op = "configure"]]
    /\ mu' = [mu EXCEPT ![LimiterMu] = LockCalled(@, g)]
    /\ UNCHANGED <<metrics, recorded>>

\* SetCustomLimit: rl.mutex.Lock() returns and the map entry is replaced
ConfigureLocked(g) ==
    /\ goroutines[g].pc = "configure_lock"
    /\ CanLock(mu[LimiterMu])
    /\ mu' = [mu EXCEPT ![LimiterMu] = Locked(@, g)]
    /\ goroutines' = [goroutines EXCEPT ![g].pc = "configure_unlock"]
    /\ UNCHANGED <<metrics, recorded, opsBegun>>

\* SetCustomLimit returns: the deferred rl.mutex.Unlock()
ConfigureUnlock(g) ==
    /\ goroutines[g].pc = "configure_unlock"
    /\ mu' = [mu EXCEPT ![LimiterMu] = Unlocked(@)]
    /\ goroutines' = [goroutines EXCEPT ![g] = IdleGoroutine]
    /\ UNCHANGED <<metrics, recorded, opsBegun>>

\* NewRateLimitMonitor: an empty metrics map, every mutex free
MonitorInit ==
    /\ mu = [l \in LockNames |-> FreeMutex]
    /\ metrics = [s \in Services |-> NoMetrics]
    /\ goroutines = [g \in Goroutines |-> IdleGoroutine]
    /\ recorded = [s \in Services |-> 0]
    /\ opsBegun = 0

\* ------------------------------------------------------------ concurrent refreshes
\* the requests that refresh the same connection at the same time, each on
\* the copy it loaded (GetPlaylists, HandleTokenHealth)
Refreshers == {"r1", "r2"}

IdleRefresher == [pc |-> "idle", copy |-> NoConnection, err |-> ""]

\* the handler loads the connection: DB.Where(...).First(&userService)
LoadConnection(r) ==
    /\ refreshers[r].pc = "idle"
    /\ refreshers' = [refreshers EXCEPT ![r] = [@ EXCEPT !.pc = "loaded", !.copy = userRow]]
    /\ UNCHANGED <<userRow, latestGrant>>

\* the token the provider issues at an exchange: its access token is the
\* number of the exchange, and so is its refresh token if one is sent
GrantedCopy(c, g, t) ==
    [c EXCEPT !.access = latestGrant + 1,
              !.refresh = IF g.rotated THEN latestGrant + 1 ELSE @,
              !.expiry = t + g.expiresIn]

\* RefreshTokenIfNeeded up to its Save: the early return, the token source
\* (which exchanges only a token that is not valid), the copy updated
ExchangeToken(r) ==
    /\ refreshers[r].pc = "loaded"
    /\ LET c == refreshers[r].copy IN
       IF c.expiry > now + RefreshWindow
       THEN /\ refreshers' = [refreshers EXCEPT ![r].pc = "done"]
            /\ UNCHANGED latestGrant
       ELSE IF TokenValid(c, now)
       THEN /\ refreshers' = [refreshers EXCEPT ![r].pc = "save"]
            /\ UNCHANGED latestGrant
       ELSE IF c.refresh = 0
       THEN /\ refreshers' = [refreshers EXCEPT ![r].pc = "done",
                                                ![r].err = "failed to refresh token"]
            /\ UNCHANGED latestGrant
       ELSE \E g \in Grants :
               IF ~g.ok
               THEN /\ refreshers' = [refreshers EXCEPT ![r].pc = "done",
                                                        ![r].err = "failed to refresh token"]
                    /\ UNCHANGED latestGrant
               ELSE /\ refreshers' = [refreshers EXCEPT ![r].pc = "save",
                                                        ![r].copy = GrantedCopy(c, g, now)]
                    /\ latestGrant' = latestGrant + 1
    /\ UNCHANGED userRow

\* RefreshTokenIfNeeded: tm.db.Save(userService) writes every field of the
\* copy, or fails
SaveRefreshed(r) ==
    /\ refreshers[r].pc = "save"
    /\ \E saveOk \in BOOLEAN :
          /\ userRow' = IF saveOk THEN refreshers[r].copy ELSE userRow
          /\ refreshers' = [refreshers EXCEPT ![r].pc = "done",
                               ![r].err = IF saveOk THEN "" ELSE "save failed"]
    /\ UNCHANGED latestGrant

\* no request refreshes
NoRefreshInit ==
    /\ userRow = NoConnection
    /\ refreshers = [r \in Refreshers |-> IdleRefresher]
    /\ latestGrant = 0

\* a stored connection (its access token is that of exchange 1) and two
\* requests about to load it
RefreshInit ==
    /\ \E s \in Services, e \in Expiries, rt \in RefreshTokens :
          userRow = [service |-> s, access |-> 1, refresh |-> rt, expiry |-> e]
    /\ refreshers = [r \in Refreshers |-> IdleRefresher]
    /\ latestGrant = 1

\* ------------------------------------------------------------ start of the program
\* The order in which the program initialises: the package-level variables
\* (database.DB, handlers.tokenManager), then main, which calls InitDB and
\* serves requests. The handlers load the connection through database.DB and
\* refresh it through tokenManager.

HandlerNames == {"GetPlaylists", "HandleTokenHealth"}

\* var DB *gorm.DB: the handle before InitDB assigns it
UnsetHandle == "unset"

OpenHandle == "open"

\* &TokenManager{db: db}
NewTokenManager(db) == [db |-> db]

\* the token manager before the package variables are initialised
NoTokenManager == [db |-> "none"]

\* the connections a handler can find stored
StoredConnections ==
    {[service |-> s, access |-> 1, refresh |-> r, expiry |-> e] :
        s \in Services, r \in RefreshTokens, e \in Expiries}

\* db.Save(value) of a handle: a nil *gorm.DB is dereferenced, which panics
SaveThrough(db) == IF db = OpenHandle THEN "saved" ELSE "panic"

\* RefreshTokenIfNeeded of a token manager on a loaded connection: what it
\* does with its database handle and how it ends
RefreshThrough(manager, c, exchanged) ==
    IF c.expiry > now + RefreshWindow
    THEN [through |-> "none", outcome |-> "fresh"]
    ELSE IF ~TokenValid(c, now) /\ (c.refresh = 0 \/ ~exchanged)
    THEN [through |-> "none", outcome |-> "failed to refresh token"]
    ELSE [through |-> manager.db, outcome |-> SaveThrough(manager.db)]

\* the package-level variables are initialised before main runs: database.DB
\* is nil, and handlers.tokenManager is made from it
InitPackages ==
    /\ boot = "start"
    /\ DB' = UnsetHandle
    /\ tokenManager' = NewTokenManager(UnsetHandle)
    /\ boot' = "main"
    /\ UNCHANGED handled

\* main: database.InitDB() assigns DB, or fails and the program exits
InitDB ==
    /\ boot = "main"
    /\ \E opened \in BOOLEAN :
          IF opened
          THEN DB' = OpenHandle /\ boot' = "serving"
          ELSE DB' = DB /\ boot' = "exited"
    /\ UNCHANGED <<tokenManager, handled>>

\* a request to a handler that refreshes: the connection is loaded through
\* database.DB and refreshed through tokenManager
HandleRequest(h) ==
    /\ boot = "serving"
    /\ Len(handled) < MaxRequests
    /\ \E c \in StoredConnections, exchanged \in BOOLEAN :
          LET r == RefreshThrough(tokenManager, c, exchanged) IN
          handled' = Append(handled, [handler |-> h, service |-> c.service,
                                      loadedThrough |-> DB,
                                      savedThrough |-> r.through,
                                      outcome |-> r.outcome])
    /\ UNCHANGED <<boot, DB, tokenManager>>

\* c.Param("service") names one connection: GetPlaylists
GetPlaylists == HandleRequest("GetPlaylists")

\* every connection of the user is validated: HandleTokenHealth
HandleTokenHealth == HandleRequest("HandleTokenHealth")

\* the program has not started
NoBootInit ==
    /\ boot = "start"
    /\ DB = UnsetHandle
    /\ tokenManager = NoTokenManager
    /\ handled = <<>>

\* ------------------------------------------------------------ specifications
TransferInit ==
    /\ services \in [Services -> {NotConnected} \cup TokenLens]
    /\ dbTransfer = NoTransfer
    /\ dbTracks = <<>>
    /\ response = 0
    /\ pc = "idle"
    /\ local = NoLocal
    /\ calls = <<>>
    /\ fault = NoMsg

\* the parts of the program a specification leaves out are not used
Unused == NoTokenInit /\ NoScoreInit /\ NoOAuthInit /\ NoSearchInit /\ NoTitleInit
    /\ NoDetailsInit /\ MonitorInit /\ NoRefreshInit /\ NoBootInit

Init == TransferInit /\ LimiterInit /\ NoClientInit /\ Unused

\* StartTransfer and processTransfer; no step of them uses the limiter
Next ==
    \/ StartTransferNotConnected /\ UNCHANGED otherThanTransfer
    \/ StartTransferCreateFails /\ UNCHANGED otherThanTransfer
    \/ StartTransfer /\ UNCHANGED otherThanTransfer
    \/ Begin /\ UNCHANGED otherThanTransfer
    \/ SetProcessing /\ UNCHANGED otherThanTransfer
    \/ FetchFails /\ UNCHANGED otherThanTransfer
    \/ FetchEmpty /\ UNCHANGED otherThanTransfer
    \/ FetchTracks /\ UNCHANGED otherThanTransfer
    \/ CreateFails /\ UNCHANGED otherThanTransfer
    \/ CreatePlaylist /\ UNCHANGED otherThanTransfer
    \/ SearchTrack /\ UNCHANGED otherThanTransfer
    \/ AddTrack /\ UNCHANGED otherThanTransfer
    \/ Finalize /\ UNCHANGED otherThanTransfer
    \/ Fault /\ UNCHANGED otherThanTransfer
    \/ ProviderSilent /\ UNCHANGED otherThanTransfer

\* the limiter and its callers
LimiterNext ==
    \/ \E c \in Callers : AllowLookup(c) /\ UNCHANGED otherThanLimiter
    \/ \E c \in Callers : AllowRun(c) /\ UNCHANGED otherThanLimiter
    \/ \E c \in Callers : WaitLookup(c) /\ UNCHANGED otherThanLimiter
    \/ \E c \in Callers : WaitReserve(c) /\ UNCHANGED otherThanLimiter
    \/ \E c \in Callers : WaitWake(c) /\ UNCHANGED otherThanLimiter
    \/ SetCustomLimit /\ UNCHANGED otherThanLimiter
    \/ Tick /\ UNCHANGED otherThanLimiter

\* no transfer is asked for
NoTransferInit ==
    /\ TransferInit
    /\ \A s \in Services : services[s] = NotConnected

LimiterStart == NoTransferInit /\ LimiterInit /\ NoClientInit /\ Unused

LimiterSpec == LimiterStart /\ [][LimiterNext]_vars

\* one call of Do
ClientNext ==
    \/ DoWait /\ UNCHANGED otherThanClient
    \/ DoExecute /\ UNCHANGED otherThanClient

ClientStart == NoTransferInit /\ ClientInit /\ Unused

ClientSpec == ClientStart /\ [][ClientNext]_vars

\* calls of the token manager on one connection
TokenNext ==
    \/ EnsureFresh /\ UNCHANGED <<now, otherThanToken>>
    \/ ForceRefresh /\ UNCHANGED <<now, otherThanToken>>
    \/ ValidateToken /\ UNCHANGED <<now, otherThanToken>>
    \/ Elapse /\ UNCHANGED otherThanToken

TokenStart ==
    /\ NoTransferInit /\ LimiterInit /\ NoClientInit
    /\ TokenInit /\ NoScoreInit /\ NoOAuthInit /\ NoSearchInit /\ NoTitleInit /\ NoDetailsInit /\ MonitorInit /\ NoRefreshInit /\ NoBootInit

TokenSpec == TokenStart /\ [][TokenNext]_vars

\* the two scoring functions applied to their inputs
ScoreNext ==
    \/ ScoreStructured /\ UNCHANGED otherThanScore
    \/ ScoreUnstructured /\ UNCHANGED otherThanScore

ScoreStart ==
    /\ NoTransferInit /\ LimiterInit /\ NoClientInit
    /\ NoTokenInit /\ ScoreInit /\ NoOAuthInit /\ NoSearchInit /\ NoTitleInit /\ NoDetailsInit
    /\ MonitorInit /\ NoRefreshInit /\ NoBootInit

ScoreSpec == ScoreStart /\ [][ScoreNext]_vars

\* concurrent requests in HandleServiceCallback, interleaved at their
\* database calls
OAuthNext ==
    \/ \E h \in Handlers : CallbackEnter(h) /\ UNCHANGED otherThanOAuth
    \/ \E h \in Handlers : CallbackLookup(h) /\ UNCHANGED otherThanOAuth
    \/ \E h \in Handlers : CallbackCreate(h) /\ UNCHANGED otherThanOAuth
    \/ \E h \in Handlers : CallbackUpdate(h) /\ UNCHANGED otherThanOAuth

OAuthStart == NoTransferInit /\ LimiterInit /\ NoClientInit /\ Unused

OAuthSpec == OAuthStart /\ [][OAuthNext]_vars

\* searchYouTubeTrack applied to a response
SearchNext == SearchYouTube /\ UNCHANGED otherThanSearch

SearchStart ==
    /\ NoTransferInit /\ LimiterInit /\ NoClientInit
    /\ NoTokenInit /\ NoScoreInit /\ NoOAuthInit /\ SearchInit /\ NoTitleInit /\ NoDetailsInit
    /\ MonitorInit /\ NoRefreshInit /\ NoBootInit

SearchSpec == SearchStart /\ [][SearchNext]_vars

\* parseYouTubeTitle applied to a title
TitleNext == ParseTitle /\ UNCHANGED otherThanTitle

TitleStart ==
    /\ NoTransferInit /\ LimiterInit /\ NoClientInit
    /\ NoTokenInit /\ NoScoreInit /\ NoOAuthInit /\ NoSearchInit /\ TitleInit /\ NoDetailsInit
    /\ MonitorInit /\ NoRefreshInit /\ NoBootInit

TitleSpec == TitleStart /\ [][TitleNext]_vars

\* one request for the details of a transfer
DetailsNext == GetTransferDetails /\ UNCHANGED otherThanDetails

DetailsStart ==
    /\ NoTransferInit /\ LimiterInit /\ NoClientInit
    /\ NoTokenInit /\ NoScoreInit /\ NoOAuthInit /\ NoSearchInit /\ NoTitleInit
    /\ DetailsInit /\ MonitorInit /\ NoRefreshInit /\ NoBootInit

DetailsSpec == DetailsStart /\ [][DetailsNext]_vars

\* goroutines in the monitor and the limiter, interleaved at their lock
\* operations
MonitorNext ==
    \/ \E g \in Goroutines : RecordRequest(g) /\ UNCHANGED otherThanMonitor
    \/ \E g \in Goroutines : RecordLocked(g) /\ UNCHANGED otherThanMonitor
    \/ \E g \in Goroutines : RecordMetricsLocked(g) /\ UNCHANGED otherThanMonitor
    \/ \E g \in Goroutines : RecordCount(g) /\ UNCHANGED otherThanMonitor
    \/ \E g \in Goroutines : RecordUnlock(g) /\ UNCHANGED otherThanMonitor
    \/ \E g \in Goroutines : GetMetrics(g) /\ UNCHANGED otherThanMonitor
    \/ \E g \in Goroutines : MetricsRLocked(g) /\ UNCHANGED otherThanMonitor
    \/ \E g \in Goroutines : MetricsServiceRLocked(g) /\ UNCHANGED otherThanMonitor
    \/ \E g \in Goroutines : MetricsStatsRLocked(g) /\ UNCHANGED otherThanMonitor
    \/ \E g \in Goroutines : MetricsStatsRUnlock(g) /\ UNCHANGED otherThanMonitor
    \/ \E g \in Goroutines : MetricsServiceRUnlock(g) /\ UNCHANGED otherThanMonitor
    \/ \E g \in Goroutines : MetricsRUnlock(g) /\ UNCHANGED otherThanMonitor
    \/ \E g \in Goroutines : LimiterCall(g) /\ UNCHANGED otherThanMonitor
    \/ \E g \in Goroutines : LimiterRLocked(g) /\ UNCHANGED otherThanMonitor
    \/ \E g \in Goroutines : LimiterRUnlock(g) /\ UNCHANGED otherThanMonitor
    \/ \E g \in Goroutines : WaitReturns(g) /\ UNCHANGED otherThanMonitor
    \/ \E g \in Goroutines : ConfigureCall(g) /\ UNCHANGED otherThanMonitor
    \/ \E g \in Goroutines : ConfigureLocked(g) /\ UNCHANGED otherThanMonitor
    \/ \E g \in Goroutines : ConfigureUnlock(g) /\ UNCHANGED otherThanMonitor

MonitorStart == NoTransferInit /\ LimiterInit /\ NoClientInit /\ Unused

MonitorSpec == MonitorStart /\ [][MonitorNext]_vars

\* two requests that refresh the same connection, interleaved at their
\* database and provider calls
RefreshNext ==
    \/ \E r \in Refreshers : LoadConnection(r) /\ UNCHANGED <<now, otherThanRefresh>>
    \/ \E r \in Refreshers : ExchangeToken(r) /\ UNCHANGED <<now, otherThanRefresh>>
    \/ \E r \in Refreshers : SaveRefreshed(r) /\ UNCHANGED <<now, otherThanRefresh>>

RefreshStart ==
    /\ NoTransferInit /\ LimiterInit /\ NoClientInit
    /\ NoTokenInit /\ NoScoreInit /\ NoOAuthInit /\ NoSearchInit /\ NoTitleInit
    /\ NoDetailsInit /\ MonitorInit /\ RefreshInit /\ NoBootInit

RefreshSpec == RefreshStart /\ [][RefreshNext]_vars

\* the program from its start: package variables, main, then requests
BootNext ==
    \/ InitPackages /\ UNCHANGED otherThanBoot
    \/ InitDB /\ UNCHANGED otherThanBoot
    \/ GetPlaylists /\ UNCHANGED otherThanBoot
    \/ HandleTokenHealth /\ UNCHANGED otherThanBoot

BootStart == NoTransferInit /\ LimiterInit /\ NoClientInit /\ Unused

BootSpec == BootStart /\ [][BootNext]_vars

Spec == Init /\ [][Next]_vars

\* the scheduler runs every goroutine that can take a step; nothing obliges
\* a provider to answer
FairSpec == Spec /\ WF_vars(Next)

\* ------------------------------------------------------------ properties
Created == dbTransfer.id # 0

StatusRank(st) ==
    CASE st = "pending" -> 0
      [] st = "processing" -> 1
      [] st \in Terminal -> 2

\* calls of one kind, in order
CallsOf(kind) == SelectSeq(calls, LAMBDA c : c.op = kind)

FetchedOk == \E k \in DOMAIN calls : calls[k].op = "fetch" /\ calls[k].res = "ok"

PlaylistCreated == \E k \in DOMAIN calls : calls[k].op = "create" /\ calls[k].res = "ok"

\* the task went through its whole loop and made its final save
LoopFinished == pc = "done" /\ fault = NoMsg /\ PlaylistCreated

RowsWith(statuses) == {k \in DOMAIN dbTracks : dbTracks[k].status \in statuses}

RowStatuses == [k \in DOMAIN dbTracks |-> dbTracks[k].status]

\* C1: the persisted status only advances pending, processing, terminal; no
\* write replaces a status by an earlier one and a terminal status, once
\* persisted, is never changed
C1_StatusOnlyAdvances ==
    [][Created =>
         /\ dbTransfer'.id # 0
         /\ StatusRank(dbTransfer'.status) >= StatusRank(dbTransfer.status)
         /\ (dbTransfer.status \in Terminal => dbTransfer'.status = dbTransfer.status)]_vars

\* a job that went pending, processing, was saved twice as processing and
\* ended completed_with_errors by its final save
C1_Witness ==
    /\ LoopFinished
    /\ dbTransfer.status = "completed_with_errors"

\* C2: a task ended by a panic, wherever it was raised, has its transfer
\* persisted as failed with the panic's description as error message; it is
\* not left in processing
C2_FaultEndsFailed ==
    fault # NoMsg =>
        /\ pc = "done"
        /\ dbTransfer.status = "failed"
        /\ dbTransfer.errorMessage = <<"Panic: ", fault[1]>>

\* a panic in the middle of the loop, one row already written
C2_Witness ==
    /\ fault = <<RuntimeFault>>
    /\ Len(dbTracks) = 1
    /\ Len(local.sourceTracks) = 3
    /\ dbTransfer.status = "failed"

\* C3: every started job eventually reaches a terminal status
C3_EventuallyTerminal ==
    Created ~> (Created /\ dbTransfer.status \in Terminal)

\* C4: for a job in a terminal status, tracksMatched + tracksFailed is the
\* number of rows written, which is at most tracksTotal
C4_CountersEqualRows ==
    (Created /\ dbTransfer.status \in Terminal) =>
        /\ dbTransfer.tracksMatched + dbTransfer.tracksFailed = Len(dbTracks)
        /\ Len(dbTracks) <= dbTransfer.tracksTotal

\* C5: the persisted counters always satisfy matched + failed <= total
C5_CountersWithinTotal ==
    Created => dbTransfer.tracksMatched + dbTransfer.tracksFailed <= dbTransfer.tracksTotal

\* a finished job whose counters add up to its total of 3
C5_Witness ==
    /\ LoopFinished
    /\ dbTransfer.tracksTotal = 3
    /\ dbTransfer.tracksMatched = 1
    /\ dbTransfer.tracksFailed = 2

\* C6: from the moment the source fetch has succeeded, the persisted
\* tracksTotal is the number of fetched source tracks
C6_TotalFixedAtFetch ==
    FetchedOk => dbTransfer.tracksTotal = Len(local.sourceTracks)

Searched == [k \in DOMAIN CallsOf("search") |-> CallsOf("search")[k].track]

SearchResOf(k) == CallsOf("search")[k].res

AddResOf(k) ==
    LET a == SelectSeq(calls, LAMBDA c : c.op = "add" /\ c.track = dbTracks[k].sourceTrackID)
    IN IF a = <<>> THEN "none" ELSE a[1].res

\* C9: a row is matched exactly when its search found a track and the append
\* succeeded, error exactly when the search found a track and the append
\* failed, not_found exactly when the search failed or returned nothing, and
\* then nothing was appended; the loop's matched counter counts the matched
\* rows and its failed counter the others
C9_RowStatusFromOutcomes ==
    /\ \A k \in DOMAIN dbTracks :
          /\ dbTracks[k].status = "matched"
                <=> (SearchResOf(k) = "found" /\ AddResOf(k) = "ok")
          /\ dbTracks[k].status = "error"
                <=> (SearchResOf(k) = "found" /\ AddResOf(k) = "error")
          /\ dbTracks[k].status = "not_found"
                <=> (SearchResOf(k) \in {"error", "empty"})
          /\ SearchResOf(k) \in {"error", "empty"} => AddResOf(k) = "none"
    /\ local.matchedTracks = Cardinality(RowsWith({"matched"}))
    /\ local.failedTracks = Cardinality(RowsWith({"not_found", "error"}))

\* rows of all three statuses, from a failed append, an empty result and a
\* successful append
C9_Witness ==
    /\ RowStatuses = <<"error", "not_found", "matched">>
    /\ SearchResOf(2) = "empty"

\* the source fetch succeeded with no track and the task has returned
EmptyFetchEnded == FetchedOk /\ local.sourceTracks = <<>> /\ pc = "done" /\ fault = NoMsg

\* C10: a job whose source fetch returned zero tracks ends failed with the
\* "source playlist is empty" message and has the fetched source playlist
\* name persisted
C10_EmptySourceKeepsName ==
    EmptyFetchEnded =>
        /\ dbTransfer.status = "failed"
        /\ dbTransfer.errorMessage = <<"Source playlist is empty">>
        /\ dbTransfer.sourcePlaylistName = local.sourcePlaylistName

\* a stage failed: the source fetch returned an error or no track, or the
\* playlist creation returned an error
FetchStageFailed ==
    \/ \E k \in DOMAIN calls : calls[k].op = "fetch" /\ calls[k].res = "error"
    \/ EmptyFetchEnded

CreateStageFailed ==
    \E k \in DOMAIN calls : calls[k].op = "create" /\ calls[k].res = "error"

\* C11: once the source fetch has failed or returned nothing, no playlist is
\* created; once the fetch or the playlist creation has failed the job is
\* persisted failed with an error message, the task has returned, and there
\* is no search call, no append call and no row, then and ever after
C11_StageFailureEndsJob ==
    /\ FetchStageFailed => CallsOf("create") = <<>>
    /\ (FetchStageFailed \/ CreateStageFailed) =>
          /\ pc = "done"
          /\ dbTransfer.status = "failed"
          /\ dbTransfer.errorMessage # NoMsg
          /\ CallsOf("search") = <<>>
          /\ CallsOf("add") = <<>>
          /\ dbTracks = <<>>

\* a job of 3 fetched tracks whose playlist creation failed
C11_Witness ==
    /\ CreateStageFailed
    /\ Len(local.sourceTracks) = 3
    /\ dbTransfer.status = "failed"
    /\ dbTransfer.errorMessage = <<"Failed to create target playlist: ", ProviderError>>

\* C12: a job that has made its source fetch has run ensureFresh on its
\* source and on its target connection before it
C12_EnsureFreshBeforeFetch ==
    \A k \in DOMAIN calls :
        calls[k].op = "fetch" =>
            Cardinality({j \in 1..(k - 1) : calls[j].op = "ensureFresh"}) >= 2

\* C14: a task exists only with a record persisted for two connected
\* services; an answer without transfer_id (400, 500) comes with no record
\* and no task; the answer with the transfer_id (200) is given in the step
\* that persists the record as pending and launches the task, before the
\* task has taken any step
C14_TaskOnlyAfterRecord ==
    /\ [](/\ pc # "idle" =>
                /\ Created
                /\ services[dbTransfer.sourceService] # NotConnected
                /\ services[dbTransfer.targetService] # NotConnected
          /\ response \in {400, 500} => (pc = "idle" /\ ~Created)
          /\ response = 200 => Created)
    /\ [][response' = 200 /\ response # 200 =>
             /\ pc = "idle" /\ ~Created
             /\ pc' = "begin"
             /\ dbTransfer'.status = "pending"
             /\ local'.transfer = dbTransfer']_vars

\* the request has its answer with the transfer_id and the task, launched,
\* has not taken a step
C14_Witness ==
    /\ response = 200
    /\ pc = "begin"
    /\ dbTransfer.status = "pending"

NoneConnected == \A s \in Services : services[s] = NotConnected

\* C15: a request for a service that is not connected is answered 401 and
\* creates no record (stated for a user with no connected service, whose
\* every request names one)
C15_NotConnectedIs401 ==
    (NoneConnected /\ response # 0) => (response = 401 /\ ~Created)

\* ------------------------------------------------------------ the limiter's claims
\* the limiters that are in use
Live == {i \in DOMAIN buckets : buckets[i] # Freed}

\* the callers asleep in Wait on limiter i, each holding a token taken on credit
Sleepers(i) == {c \in Callers : callers[c].pc = "sleeping" /\ callers[c].ref = i}

\* the admissions granted by all the limiters
RECURSIVE GrantedUpTo(_)
GrantedUpTo(n) == IF n = 0 THEN 0 ELSE buckets[n].granted + GrantedUpTo(n - 1)

TotalGranted == GrantedUpTo(Len(buckets))

\* C13: every provider call of a transfer job (fetch, create, search, add)
\* is preceded by a limiter admission of its own, so the job never has made
\* more provider calls than the limiter has granted admissions.
C13_JobCallsAdmitted == Len(calls) <= TotalGranted

TokensWithinBurst == \A i \in Live : buckets[i].tokens <= buckets[i].burst

GrantsWithinTokens ==
    \A i \in Live :
        buckets[i].granted <= buckets[i].burst + buckets[i].rate * (now - buckets[i].born)

\* a step in which caller c comes back from limiter.Allow()
AllowReturns(c) == callers[c].pc = "allow" /\ callers'[c].pc = "idle"

BurstThenDenied ==
    \A c \in Callers :
        (AllowReturns(c) /\ now = buckets[callers[c].ref].born) =>
            LET i == callers[c].ref IN
            /\ (callers'[c].result = "true") <=>
                   (buckets[i].granted + Cardinality(Sleepers(i)) < buckets[i].burst)
            /\ callers'[c].result \in {"true", "false"}
            /\ buckets'[i] # Freed =>
                   buckets'[i].granted =
                       buckets[i].granted + (IF callers'[c].result = "true" THEN 1 ELSE 0)

\* C16: with no time elapsed since a bucket of burst b was full, Allow
\* returns true while fewer than b tokens have been handed out and false
\* from then on (5 true, then false, for YouTube); under every interleaving
\* of Allow and Wait callers the admissions a bucket has granted never
\* exceed the tokens it has had (burst + rate * seconds) and its token count
\* never exceeds burst.
C16_BurstBoundsAdmissions ==
    /\ [](TokensWithinBurst /\ GrantsWithinTokens)
    /\ [][BurstThenDenied]_vars

C16_Witness ==
    /\ now = 0
    /\ limiters.youtube = 2
    /\ buckets[2].granted = ServiceLimits.youtube.burst
    /\ buckets[2].tokens = 0
    /\ \E c \in Callers : callers[c].service = "youtube" /\ callers[c].result = "false"

\* the parameters and the token count of a service's current limiter
BucketOf(lims, bs, s) ==
    <<lims[s], bs[lims[s]].rate, bs[lims[s]].burst, bs[lims[s]].tokens>>

\* the step is a call on the limiter for service s
CallOn(s) ==
    \/ \E c \in Callers : callers'[c] # callers[c] /\ callers'[c].service = s
    \/ limiters'[s] # limiters[s]

OtherBucketsUntouched ==
    \A q \in DOMAIN limiters :
        BucketOf(limiters', buckets', q) # BucketOf(limiters, buckets, q) =>
            /\ CallOn(q)
            /\ \A p \in DOMAIN limiters \ {q} : ~CallOn(p)

\* a caller at limiter.Allow() or limiter.Wait() of a limiter that has a
\* token gets it in that step, whoever is asleep on other limiters
TokenNeverWithheld ==
    \A c \in Callers :
        (/\ callers[c].pc \in {"allow", "wait"}
         /\ callers'[c] # callers[c]
         /\ Advance(buckets[callers[c].ref], now).tokens >= 1) =>
            /\ callers'[c].pc = "idle"
            /\ callers'[c].result = (IF callers[c].pc = "allow" THEN "true" ELSE "nil")

\* C17: Allow, Wait and SetCustomLimit for one service leave the limiter of
\* every other service as it was (same object, rate, burst, tokens), and a
\* call for a service whose bucket has a token is admitted at once even while
\* callers sleep on an exhausted bucket of another service.
C17_BucketsIndependent == [][OtherBucketsUntouched /\ TokenNeverWithheld]_vars

C17_Witness ==
    \E c, d \in Callers :
        /\ callers[c].pc = "sleeping"
        /\ callers[c].service = "youtube"
        /\ buckets[callers[c].ref].tokens < 0
        /\ callers[d].service = "spotify"
        /\ callers[d].result = "nil"
        /\ buckets[limiters.spotify].tokens = ServiceLimits.spotify.burst - 1

\* ------------------------------------------------------------ the client's claims
\* the places of the trace where the request was executed, where admission
\* was refused
Execs == {k \in DOMAIN trace : trace[k].ev = "exec"}

Refusals == {k \in DOMAIN trace : trace[k].ev = "refused"}

\* C18: when Wait fails (the token would come after the 30 s bound, or the
\* service has no limiter) Do returns the rate-limit error and no response;
\* the request is not executed on that attempt and nothing follows the
\* refusal.  A client of a service without limiter executes nothing at all.
C18_AdmissionFailureIsTerminal ==
    /\ \A k \in Refusals :
          /\ k = Len(trace)
          /\ do.pc = "returned"
          /\ do.err = "rate limit error"
          /\ do.resp = NoResponse
          /\ \A j \in Execs : trace[j].attempt # trace[k].attempt
    /\ (do.service \notin DOMAIN limiters /\ do.pc \notin {"none", "wait"}) =>
          (Refusals = {1} /\ Execs = {})
    /\ (do.pc = "returned" /\ do.err = "rate limit error") => Refusals # {}

C18_Witness ==
    /\ do.service = "youtube"
    /\ do.pc = "returned"
    /\ do.err = "rate limit error"
    /\ Refusals = {1}
    /\ Execs = {}
    /\ buckets[limiters.youtube].tokens = ServiceLimits.youtube.burst - 35

\* C19: one call of Do executes the request at most MaxRetries + 1 = 4
\* times, on attempts numbered 0..MaxRetries in rising order, and each
\* execution comes right after the admission of the same attempt, granted by
\* the limiter of the client's service.
C19_ExecutionsBoundedAndAdmitted ==
    /\ Cardinality(Execs) <= MaxRetries + 1
    /\ \A k \in Execs :
          /\ trace[k].attempt \in 0..MaxRetries
          /\ k > 1
          /\ trace[k - 1].ev = "admit"
          /\ trace[k - 1].attempt = trace[k].attempt
    /\ \A j, k \in Execs : j < k => trace[j].attempt < trace[k].attempt
    /\ do.service \in DOMAIN limiters =>
          buckets[limiters[do.service]].granted =
              Cardinality({k \in DOMAIN trace : trace[k].ev = "admit"})

C19_Witness ==
    /\ do.pc = "returned"
    /\ Cardinality(Execs) = MaxRetries + 1
    /\ \E k \in Execs : trace[k].attempt = MaxRetries /\ trace[k - 1].ev = "admit"

\* the seconds slept right after the event at place k
SleptAfter(k) == IF k < Len(trace) /\ trace[k + 1].ev = "sleep" THEN trace[k + 1].n ELSE 0

\* the delay the claim gives for a rate-limited response: the Retry-After
\* delay when the header is there as seconds or as a date, (attempt+1)*5
\* otherwise
ClaimedDelay(e) ==
    IF e.out.retryAfter.kind \in {"seconds", "date"}
    THEN (IF getRetryAfter(e.out, e.n) > 0 THEN getRetryAfter(e.out, e.n) ELSE 0)
    ELSE (e.attempt + 1) * 5

RateLimitedAt(k) == ~trace[k].out.err /\ isRateLimited(trace[k].out)

SuccessAt(k) ==
    /\ ~trace[k].out.err
    /\ ~isRateLimited(trace[k].out)
    /\ trace[k].out.status >= 200
    /\ trace[k].out.status < 300

RECURSIVE SumSlept(_)
SumSlept(k) ==
    IF k = 0 THEN 0
    ELSE (IF trace[k].ev = "sleep" THEN trace[k].n ELSE 0) + SumSlept(k - 1)

RetryAfterTwo(k) ==
    /\ trace[k].out.status = 429
    /\ trace[k].out.retryAfter = [kind |-> "seconds", v |-> 2]

\* the place of the last execution
LastExec == CHOOSE k \in Execs : \A j \in Execs : j <= k

\* C20: when every execution but the last got a rate-limited response and
\* the last a 2xx one, Do returns that response without error, and before
\* each retry it slept for the Retry-After delay when the header was there
\* (seconds or date) and for (attempt+1)*5 seconds otherwise; with
\* Retry-After: 2 on the first two attempts it slept at least 2 seconds and
\* made exactly 3 attempts.
C20_RetryAfterHonoured ==
    (/\ do.pc = "returned"
     /\ Execs # {}
     /\ \A k \in Execs : IF k = LastExec THEN SuccessAt(k) ELSE RateLimitedAt(k)) =>
        /\ do.err = ""
        /\ do.resp = trace[LastExec].out
        /\ Cardinality(Execs) = trace[LastExec].attempt + 1
        /\ Cardinality(Execs) <= MaxRetries + 1
        /\ \A k \in Execs : k # LastExec => SleptAfter(k) = ClaimedDelay(trace[k])
        /\ (\E j, k \in Execs :
               /\ trace[j].attempt = 0 /\ RetryAfterTwo(j)
               /\ trace[k].attempt = 1 /\ RetryAfterTwo(k)
               /\ Cardinality(Execs) = 3) => SumSlept(Len(trace)) >= 2

\* the execution at place k got a response (not a transport error)
ResponseAt(k) == trace[k].ev = "exec" /\ ~trace[k].out.err

\* Do went on from the event at place k: it slept `seconds` and then asked
\* for the admission of the next attempt
RetriedAfter(k, seconds) ==
    /\ k < Len(trace)
    /\ trace[k + 1].ev = "sleep"
    /\ trace[k + 1].n = seconds
    /\ IF Len(trace) = k + 1
       THEN do.pc = "wait" /\ do.attempt = trace[k].attempt + 1
       ELSE /\ trace[k + 2].ev \in {"admit", "refused"}
            /\ trace[k + 2].attempt = trace[k].attempt + 1

\* Do returned the response of the execution at place k, which is the last
\* thing it did
ReturnedAt(k) ==
    /\ k = Len(trace)
    /\ do.pc = "returned"
    /\ do.resp = trace[k].out
    /\ do.err = ""

\* C21: when each of the MaxRetries + 1 attempts got a rate-limited response
\* (status 429, or X-RateLimit-Remaining 0), Do returns the rate-limited
\* error and no response.
C21_RetriesExhaustedRateLimited ==
    (/\ do.pc = "returned"
     /\ Cardinality(Execs) = MaxRetries + 1
     /\ \A k \in Execs :
           ResponseAt(k) /\ (trace[k].out.status = 429 \/ trace[k].out.remaining0)) =>
        /\ do.err = "rate limited"
        /\ do.resp = NoResponse

C21_Witness ==
    /\ do.pc = "returned"
    /\ do.err = "rate limited"
    /\ Cardinality(Execs) = MaxRetries + 1
    /\ \A k \in Execs : ResponseAt(k) /\ trace[k].out.status = 429
    /\ \E k \in Execs : trace[k].attempt = MaxRetries

\* a status of 200-299, or a 4xx other than 429
EndsRequest(st) == (st >= 200 /\ st < 300) \/ (st >= 400 /\ st < 500 /\ st # 429)

\* C22 as stated: every response with status 200-299, or 4xx other than
\* 429, ends the request on its attempt: Do returns it at once, with no
\* sleep and no further attempt.
C22_EveryFinalStatusReturned ==
    \A k \in Execs :
        (ResponseAt(k) /\ EndsRequest(trace[k].out.status)) => ReturnedAt(k)

\* C22: every response with status 200-299, or 4xx other than 429, that
\* does not carry X-RateLimit-Remaining 0 ends the request on its attempt:
\* Do returns it at once, with no sleep and no further attempt.
C22_FinalStatusReturnedUnlessThrottled ==
    \A k \in Execs :
        (/\ ResponseAt(k)
         /\ EndsRequest(trace[k].out.status)
         /\ ~trace[k].out.remaining0) => ReturnedAt(k)

C22_Witness ==
    /\ do.pc = "returned"
    /\ Cardinality(Execs) = 2
    /\ do.resp.status = 404
    /\ ~do.resp.remaining0
    /\ trace[Len(trace)].ev = "exec"
    /\ trace[Len(trace)].attempt = 1

\* C23 as stated: a response with status >= 500 before the last attempt is
\* retried after attempt+1 seconds, and on the last attempt it is returned
\* as it is, with no error.
C23_EveryServerErrorRetried ==
    \A k \in Execs :
        (ResponseAt(k) /\ trace[k].out.status >= 500) =>
            IF trace[k].attempt < MaxRetries
            THEN RetriedAfter(k, trace[k].attempt + 1)
            ELSE ReturnedAt(k)

\* C23: a response with status >= 500 that does not carry
\* X-RateLimit-Remaining 0 is retried after attempt+1 seconds when it comes
\* before the last attempt, and on the last attempt it is returned as it is,
\* with no error.
C23_ServerErrorRetriedUnlessThrottled ==
    \A k \in Execs :
        (/\ ResponseAt(k)
         /\ trace[k].out.status >= 500
         /\ ~trace[k].out.remaining0) =>
            IF trace[k].attempt < MaxRetries
            THEN RetriedAfter(k, trace[k].attempt + 1)
            ELSE ReturnedAt(k)

C23_Witness ==
    /\ do.pc = "returned"
    /\ do.err = ""
    /\ do.resp.status = 500
    /\ ~do.resp.remaining0
    /\ Cardinality(Execs) = MaxRetries + 1
    /\ \A k \in Execs : trace[k].out.status = 500 /\ ~trace[k].out.remaining0

\* C24: a transport error before the last attempt is retried after
\* attempt+1 seconds; when all MaxRetries + 1 attempts fail with a transport
\* error, Do returns the error of the last attempt and no response.
C24_TransportErrorRetried ==
    /\ \A k \in Execs :
          (trace[k].out.err /\ trace[k].attempt < MaxRetries) =>
              RetriedAfter(k, trace[k].attempt + 1)
    /\ (/\ do.pc = "returned"
        /\ Cardinality(Execs) = MaxRetries + 1
        /\ \A k \in Execs : trace[k].out.err) =>
           /\ do.err = trace[LastExec].out.cause
           /\ do.resp = NoResponse
           /\ LastExec = Len(trace)

C24_Witness ==
    /\ do.pc = "returned"
    /\ do.err = "reset"
    /\ Cardinality(Execs) = MaxRetries + 1
    /\ \A k \in Execs : trace[k].out.err
    /\ \E k \in Execs : trace[k].out.cause = "timeout"

\* ------------------------------------------------------------ the token manager's claims
\* the step is a call of the token manager named op
TokenCall(op) == tm'.n = tm.n + 1 /\ tm'.op = op

\* C25: RefreshTokenIfNeeded on a connection whose expiry is more than 5
\* minutes ahead does nothing: no exchange, no save, the caller's copy and
\* the stored record unchanged, no error; so a second call on a token that
\* is still that fresh makes no network call, also right after the call
\* that refreshed it.
C25_FreshTokenIsNoOp ==
    [][(TokenCall("ensureFresh") /\ conn.expiry > now + RefreshWindow) =>
          /\ conn' = conn
          /\ stored' = stored
          /\ ~tm'.exchanged
          /\ ~tm'.saved
          /\ tm'.err = ""]_vars

C25_Witness ==
    /\ tm.n = 2
    /\ tm.op = "ensureFresh"
    /\ tm.err = ""
    /\ ~tm.exchanged
    /\ ~tm.saved
    /\ conn.access = 2
    /\ conn.expiry > now + RefreshWindow
    /\ stored = conn

\* C26: RefreshTokenIfNeeded on a connection whose expiry is not more than
\* 5 minutes ahead (and that has a refresh token) exchanges the refresh
\* token at the provider and, when that and the save succeed, the caller's
\* copy holds the new access token and expiry and the stored record equals
\* it.
C26_StaleTokenExchanged ==
    [][(/\ TokenCall("ensureFresh")
        /\ conn.expiry <= now + RefreshWindow
        /\ conn.refresh # 0) =>
          /\ tm'.exchanged
          /\ tm'.err = "" =>
                /\ conn'.access # conn.access
                /\ conn'.expiry > now
                /\ stored' = conn']_vars

\* the provider rejected the refresh token in this step
RefreshRejected == tm'.n = tm.n + 1 /\ tm'.exchanged /\ tm'.err = "failed to refresh token"

\* C27: when the provider rejects the refresh token, RefreshTokenIfNeeded,
\* ForceRefreshToken and ValidateToken return the error, save nothing, and
\* leave the stored record and the caller's copy (access token, refresh
\* token, expiry) as before the call; ValidateToken makes no test call and
\* reports invalid.
C27_RejectedRefreshChangesNothing ==
    [][RefreshRejected =>
          /\ ~tm'.saved
          /\ stored' = stored
          /\ conn' = conn
          /\ ~tm'.whoami
          /\ ~tm'.valid]_vars

\* ------------------------------------------------------------ the scoring claim
\* no term occurs twice in the sequence
NoRepeat(terms) == \A i, j \in DOMAIN terms : terms[i] = terms[j] => i = j

\* C28: the confidence of both scoring paths lies in [0,1] (0..10 tenths):
\* the structured one is a name score in {0, 0.4, 0.5, 0.6} plus an artist
\* score in {0, 0.2, 0.4}, the unstructured one is the sum of some of 0.4,
\* 0.3, 0.2, 0.1, each at most once, for every input, empty names and
\* artists included.
C28_ConfidenceInUnitRange ==
    score # NoScore =>
        /\ score.total \in 0..10
        /\ match.path = "structured" =>
              /\ score.name \in {0, 4, 5, 6}
              /\ score.artist \in {0, 2, 4}
              /\ score.total = score.name + score.artist
        /\ match.path = "unstructured" =>
              /\ \A i \in DOMAIN score.terms : score.terms[i] \in {4, 3, 2, 1}
              /\ NoRepeat(score.terms)
              /\ score.total = Sum(score.terms)

C28_Witness ==
    /\ match.path = "structured"
    /\ match.artist = <<>>
    /\ match.extra = <<>>
    /\ TrimSpace(match.name) = <<>>
    /\ match.other = <<>>
    /\ score.total = 10

\* ------------------------------------------------------------ the connection claim
\* C29: after any interleaving of OAuth callbacks there is at most one
\* user_services row per (user, provider): a callback for a connected pair
\* updates the row instead of creating a second one, also when two
\* callbacks for the pair run concurrently.
C29_OneConnectionPerPair ==
    \A i, j \in DOMAIN userServices :
        (userServices[i].user = userServices[j].user
            /\ userServices[i].provider = userServices[j].provider) => i = j

\* ------------------------------------------------------------ the first transition
\* C30: every transfer that reaches a terminal status was in status
\* processing immediately before: the task's first persisted change is
\* pending to processing, and no job goes from pending directly to failed.
C30_TerminalOnlyFromProcessing ==
    [][(/\ dbTransfer # NoTransfer
        /\ dbTransfer' # NoTransfer
        /\ dbTransfer.status \notin Terminal
        /\ dbTransfer'.status \in Terminal) => dbTransfer.status = "processing"]_vars

\* ------------------------------------------------------------ track rows
\* the row written by the step, if it wrote one
NewRow == dbTracks'[Len(dbTracks')]

\* C31: every TransferTrack row is consistent with its status: a not_found
\* row has confidence 0 and an empty target id, name and artist; a matched
\* or error row has a non-empty target id and carries the name, artist and
\* confidence that the search returned for that track.
C31_RowConsistentWithStatus ==
    /\ [](\A k \in DOMAIN dbTracks :
            /\ dbTracks[k].status \in {"not_found", "matched", "error"}
            /\ dbTracks[k].status = "not_found" =>
                  /\ dbTracks[k].confidence = 0
                  /\ dbTracks[k].targetTrackID = 0
                  /\ dbTracks[k].targetTrackName = ""
                  /\ dbTracks[k].targetArtist = ""
            /\ dbTracks[k].status \in {"matched", "error"} =>
                  dbTracks[k].targetTrackID # 0)
    /\ [][(Len(dbTracks') = Len(dbTracks) + 1 /\ NewRow.status \in {"matched", "error"}) =>
            /\ NewRow.targetTrackID = local.targetTrack.id
            /\ NewRow.targetTrackName = local.targetTrack.name
            /\ NewRow.targetArtist = local.targetTrack.artist
            /\ NewRow.confidence = local.targetTrack.conf
            /\ NewRow.sourceTrackID = local.sourceTracks[local.i]]_vars

C31_Witness ==
    \E k \in DOMAIN dbTracks :
        /\ dbTracks[k].status = "error"
        /\ dbTracks[k].confidence = 10
        /\ dbTracks[k].targetArtist = "Daft Punk"
        /\ \E j \in DOMAIN dbTracks : dbTracks[j].status = "not_found"

\* C32: a candidate is appended to the destination playlist and its row
\* recorded as matched only when the search returned a confidence greater
\* than 0 for it: a search whose every candidate scores 0 is treated like
\* no match (not_found, nothing appended).
C32_MatchedOnlyAboveZero ==
    /\ \A k \in DOMAIN dbTracks :
          dbTracks[k].status = "matched" => dbTracks[k].confidence > 0
    /\ pc = "add" => local.targetTrack.conf > 0

\* ------------------------------------------------------------ limiter statistics
\* C33: stats(provider) reports the rate and burst in force for the
\* provider's bucket with its available tokens: after configure(provider,
\* r, b) the next stats reports rate r and burst b, and tokensAvailable is
\* never greater than the reported burst.
C33_StatsReportLimitsInForce ==
    \A s \in DOMAIN limiters :
        /\ GetLimiterStats(s).limit = buckets[limiters[s]].rate
        /\ GetLimiterStats(s).burst = buckets[limiters[s]].burst
        /\ GetLimiterStats(s).current_tokens <= GetLimiterStats(s).burst

\* ------------------------------------------------------------ the best candidate
\* C34: the unstructured search returns the candidate with the maximum
\* score among the results, among candidates of equal maximum score the
\* first in result order, and the confidence returned is that candidate's
\* score.
C34_FirstMaximumReturned ==
    (found # NotSearched /\ ~found.err) =>
        /\ found.id \in DOMAIN search.items
        /\ found.conf = ItemConfidence(search.track, search.items, found.id)
        /\ \A k \in DOMAIN search.items :
              /\ ItemConfidence(search.track, search.items, k) <= found.conf
              /\ k < found.id => ItemConfidence(search.track, search.items, k) < found.conf

C34_Witness ==
    /\ found.id = 2
    /\ Len(search.items) = 3
    /\ ItemConfidence(search.track, search.items, 3) = found.conf
    /\ ItemConfidence(search.track, search.items, 1) > 0

\* ------------------------------------------------------------ title decomposition
\* the separator patterns in the order the decomposition tries them
SeparatorOrder == <<{"-", "en-dash", "em-dash"}, {":"}, {"|"}>>

\* the title with the listed suffixes stripped and trimmed
CleanedTitle == TrimSpace(SelectSeq(TrimSpace(videoTitle), IsNoSuffix))

\* the split of the cleaned title at a place, both groups trimmed
SplitAt(i) ==
    [artist |-> TrimSpace(SubSeq(CleanedTitle, 1, i - 1)),
     track |-> TrimSpace(SubSeq(CleanedTitle, i + 1, Len(CleanedTitle)))]

\* pattern k splits the cleaned title at its first separator into two
\* non-empty groups
Yields(k) ==
    \E i \in DOMAIN CleanedTitle :
        /\ CleanedTitle[i] \in SeparatorOrder[k]
        /\ \A j \in 1..(i - 1) : CleanedTitle[j] \notin SeparatorOrder[k]
        /\ SplitAt(i).artist # <<>>
        /\ SplitAt(i).track # <<>>

\* C35: title decomposition strips the listed suffixes, tries the separator
\* patterns in the order dash, colon, pipe and returns the split of the
\* first pattern that yields two non-empty trimmed groups; when none does
\* it returns the empty artist and the whole cleaned title.  The two
\* documented titles give ("Daft Punk", "One More Time") and ("", "Intro"),
\* and the track name is never empty for a title non-empty after cleaning.
C35_TitleDecomposition ==
    parsed # NotParsed =>
        /\ \A k \in DOMAIN SeparatorOrder :
              (Yields(k) /\ \A q \in 1..(k - 1) : ~Yields(q)) =>
                 \E i \in DOMAIN CleanedTitle :
                    /\ CleanedTitle[i] \in SeparatorOrder[k]
                    /\ \A j \in 1..(i - 1) : CleanedTitle[j] \notin SeparatorOrder[k]
                    /\ parsed = SplitAt(i)
        /\ (\A k \in DOMAIN SeparatorOrder : ~Yields(k)) =>
              parsed = [artist |-> <<>>, track |-> CleanedTitle]
        /\ CleanedTitle # <<>> => parsed.track # <<>>
        /\ videoTitle = DaftPunkTitle =>
              parsed = [artist |-> <<"Daft", " ", "Punk">>,
                        track |-> <<"One", " ", "More", " ", "Time">>]
        /\ videoTitle = IntroTitle => parsed = [artist |-> <<>>, track |-> <<"Intro">>]

\* ------------------------------------------------------------ transfer details
\* the decimal numbers among the id parameters, with their values
Decimal == [n \in {1, 2, 3, 9} |-> CASE n = 1 -> "1" [] n = 2 -> "2" [] n = 3 -> "3" [] n = 9 -> "9"]

\* the transfer the request names, if it exists
Named == {x \in transferRows.transfers : x.id \in DOMAIN Decimal /\ Decimal[x.id] = details.param}

\* the request is for a transfer that exists and is the user's
OwnTransfer == \E x \in Named : x.userID = details.user

\* C36: GET /transfers/:id returns a transfer and its tracks only when the
\* transfer exists and its userID is the authenticated user's; for an
\* unknown id and for another user's transfer the answer is 404 and shows
\* nothing of the transfer; the tracks returned all carry the transfer's id.
C36_DetailsOnlyForOwner ==
    details # NoDetails =>
        /\ details.answer.status = 200 =>
              /\ details.authenticated
              /\ OwnTransfer
              /\ details.answer.transfer \in Named
              /\ details.answer.transfer.userID = details.user
              /\ \A k \in details.answer.tracks :
                    k \in transferRows.tracks /\ k.transferID = details.answer.transfer.id
        /\ details.answer.status # 200 =>
              details.answer.transfer = NoTransferRow /\ details.answer.tracks = {}
        /\ (details.authenticated /\ details.param \in {"1", "2", "3", "9"} /\ ~OwnTransfer) =>
              details.answer.status = 404

C36_Witness ==
    /\ details.authenticated
    /\ details.answer.status = 404
    /\ \E x \in Named :
          /\ x.userID # details.user
          /\ \E k \in transferRows.tracks : k.transferID = x.id

\* ------------------------------------------------------------ the last attempt
\* C37: within one Do call every backoff sleep is followed by another
\* attempt: when the last permitted attempt (attempt = maxRetries) gets a
\* rate-limited response, a server error or a network error, Do returns
\* without sleeping first.
C37_NoSleepAfterLastAttempt ==
    /\ \A k \in DOMAIN trace : trace[k].ev = "sleep" => trace[k].attempt < MaxRetries
    /\ (do.pc = "returned" /\ trace # <<>>) => trace[Len(trace)].ev # "sleep"

\* ------------------------------------------------------------ locks
\* the goroutine holds the mutex, for reading or for writing
Holds(g, l) == g \in mu[l].readers \/ mu[l].writer = g

\* the mutex the goroutine is blocked on or about to take ("": none)
Wants(g) ==
    CASE goroutines[g].pc \in {"record_lock", "metrics_rlock"} -> MonitorMu
      [] goroutines[g].pc \in {"record_lock_metrics", "metrics_rlock_service"} ->
            goroutines[g].service
      [] goroutines[g].pc \in {"metrics_stats", "limiter_rlock", "configure_lock"} -> LimiterMu
      [] OTHER -> ""

\* the goroutine cannot take its next step now
Blocked(g) ==
    /\ Wants(g) # ""
    /\ IF goroutines[g].pc \in {"record_lock", "record_lock_metrics", "configure_lock"}
       THEN ~CanLock(mu[Wants(g)])
       ELSE ~CanRLock(mu[Wants(g)])

\* the order of the locks: monitor map, per-provider metrics, limiter map
LockRank(l) == IF l = MonitorMu THEN 1 ELSE IF l = LimiterMu THEN 3 ELSE 2

Busy == {g \in Goroutines : goroutines[g].pc # "idle"}

\* C38: concurrent RecordRequest, GetMetrics, Wait, Allow, GetLimiterStats
\* and SetCustomLimit never deadlock: locks are taken in the order monitor
\* map, per-provider metrics, limiter map; Wait holds no lock while it waits
\* for its token, so that SetCustomLimit is never blocked by a waiting
\* caller; and no RecordRequest increment is lost (rate_limited and errors
\* never exceed total_requests).
C38_NoDeadlockNoLostIncrement ==
    /\ Busy # {} => \E g \in Busy : ~Blocked(g)
    /\ \A g \in Goroutines, l \in LockNames :
          (Holds(g, l) /\ Wants(g) # "") => LockRank(l) < LockRank(Wants(g))
    /\ \A g \in Goroutines :
          goroutines[g].pc = "wait_token" => \A l \in LockNames : ~Holds(g, l)
    /\ \A s \in Services :
          /\ metrics[s].total = recorded[s]
          /\ metrics[s].rateLimited <= metrics[s].total
          /\ metrics[s].errors <= metrics[s].total

C38_Witness ==
    /\ \E g \in Goroutines : goroutines[g].pc = "wait_token"
    /\ \E g \in Goroutines : mu[LimiterMu].writer = g
    /\ \E s \in Services : metrics[s].total = 1 /\ metrics[s].rateLimited = 1

\* ------------------------------------------------------------ concurrent refreshes
\* C39: under any interleaving of two ensureFresh calls on the same stored
\* connection, each on its own loaded copy, no call overwrites a newer
\* access/refresh token pair with an older one (so that the connection
\* persisted at the end holds the pair of the latest successful exchange),
\* and a successful refresh never replaces a stored non-empty refresh token
\* by an empty one.
C39_NewestPairKept ==
    [][/\ userRow'.access >= userRow.access
       /\ userRow.refresh # 0 => userRow'.refresh # 0]_vars

\* C40: the token manager of the handlers is bound to the handle InitDB
\* opened: once the program serves, tokenManager.db is database.DB, and every
\* Save of a refresh made from a handler goes through an open handle
C40_ManagerBoundToOpenHandle ==
    /\ boot = "serving" => tokenManager.db = DB
    /\ \A i \in 1..Len(handled) :
          handled[i].savedThrough # "none" => handled[i].savedThrough = OpenHandle

====
